---- MODULE Spec2Model ----
(***************************************************************************)
(* Model of the WB tariffs integration service: the backoff retrier        *)
(* (utils/retry.ts), the tariff normalizer (tariff-service.ts), the tariff *)
(* store (tariff-repository.ts over the tariffs table of the migration)    *)
(* and the Google Sheets synchronizer (sheets-sync.ts, sheets-client.ts).  *)
(* Each component has its own specification over the shared variables;    *)
(* a specification leaves the other components in their initial state.     *)
(***************************************************************************)
EXTENDS Integers, Sequences, FiniteSets, TLC

VARIABLES
    \* ---- retry / retryWithCondition (utils/retry.ts)
    rpc,            \* position of the retry call: idle, attempt, sleeping, returned, thrown
    rconfig,        \* the merged RetryConfig of the call
    viaCondition,   \* TRUE when the call entered through retryWithCondition
    attempt,        \* the loop variable of retry (0-based)
    calls,          \* number of times fn has been invoked
    waits,          \* the delays passed to sleep, in order
    errs,           \* the error raised by each failed attempt, in order
    lastError,      \* retry's lastError
    thrown,         \* the error the call failed with (NoError while none)
    nonRetryableLogged, \* times retryWithCondition logged a non-retryable error
    operation,      \* the label of the call: operationName || "operation"
    errorLog,       \* what retry wrote with logger.error, in order
    \* ---- transformBoxTariffs (services/tariff/tariff-service.ts)
    npc,            \* ready: boxTariffs received; done: transformBoxTariffs returned;
                    \* again: it returned from a second call with the same list
    boxTariffs,     \* the raw list passed to transformBoxTariffs
    today,          \* the calendar day of the run (new Date() at local midnight)
    processedTariffs, \* the list transformBoxTariffs returned
    \* ---- the tariffs table and upsertDailyTariffs (tariff-repository.ts)
    store,          \* the committed rows of the tariffs table
    nextId,         \* the next value of the id sequence
    dbClock,        \* the database clock: transactions started so far
    alive,          \* FALSE once the process has exited
    tx,             \* per call of upsertDailyTariffs: its progress
    \* ---- syncAllSheets (google-sheets/sheets-sync.ts, sheets-client.ts)
    spreadsheetIds, \* config.spreadsheetIds: the configured targets, in order
    sheet,          \* per spreadsheet: the rows of stocks_coefs!A:Z
    syncPc,         \* syncAllSheets: idle, running, returned
    sync,           \* per target index: the progress of its syncSheet call
    syncResults,    \* the list syncAllSheets returned
    \* ---- startup and the scheduler (app.ts, scheduler/scheduler.ts)
    env,            \* which of the Google Sheets variables the environment sets
    appPc,          \* position of the process: boot, migrate, initialFetch,
                    \* startScheduler, running, crashed, exited
    isRunning,      \* Scheduler.isRunning
    tariffFetchTask, \* TRUE when the fetch cron task is scheduled
    sheetsSyncTask, \* TRUE when the sync cron task is scheduled
    hour, minute,   \* the UTC wall clock, to the minute
    fetchInFlight,  \* scheduled fetchAndStoreTariffs invocations in progress
    syncInFlight,   \* scheduled syncAllSheets invocations in progress
    failureSeen,    \* none; failed: a scheduled invocation has failed;
                    \* firedAgain: a task was fired after that
    \* ---- one attempt of fetchBoxTariffs (wb-api/wb-api-client.ts)
    fpc,            \* none, awaitHeaders, awaitBody, awaitErrorText
    timeoutArmed,   \* TRUE while the setTimeout of the attempt is pending
    responseStatus, \* response.status once the headers have arrived (0 before)
    causes,         \* what made each failed attempt fail, in order
    \* ---- a call of shouldRetry (utils/retry.ts)
    srPc,           \* ready: the argument is given; done: shouldRetry returned
    srError,        \* the error passed to shouldRetry
    srResult,       \* the value shouldRetry returned
    \* ---- getLatestDailyTariffs / getTariffsByDate called on their own (tariff-repository.ts)
    qpc,            \* position of the query call: idle, maxDate, rows, returned, thrown
    qKind,          \* latest: getLatestDailyTariffs; byDate: getTariffsByDate
    qDate,          \* the date of the where clause (0 while none)
    qResult,        \* the list the call returned
    \* ---- one fetch cycle after another: fetchAndStoreTariffs (tariff-service.ts)
    cpc,            \* position of the cycle: idle, fetching, upsert, done, failed
    clockDay,       \* the local calendar day the clock shows
    cyclesStarted,  \* calls of fetchAndStoreTariffs so far
    cycleFailures,  \* calls of fetchAndStoreTariffs that rethrew so far
    storeBefore,    \* the committed rows when the current cycle began
    cycleError,     \* the message of the error the cycle rethrew ("" while none)
    cycleFailedAt,  \* the step that failed: fetch or upsert ("" while none)
    \* ---- the Scheduler object: start() and stop() called in any order (scheduler/scheduler.ts)
    activeFetchTasks,\* fetch cron tasks created by cron.schedule and not stopped
    activeSyncTasks,\* sync cron tasks created by cron.schedule and not stopped
    startCalls,     \* calls of start() so far
    lastCall,       \* how the last call of start() or stop() ended (none before the first)
    \* ---- the two dates of a fetch cycle: the date parameter of fetchBoxTariffs and the date of transformBoxTariffs
    dpc,            \* idle, attempt (an attempt of the fetch is in progress), stored, failed
    clockMinutes,   \* the clock: minutes since 00:00 UTC of day 1
    tzOffset,       \* the time zone of the machine: minutes east of UTC
    dateParam,      \* the day of the date parameter of the request (0 before the call)
    rowDate,        \* the day transformBoxTariffs gives the tariffs (0 before it)
    dAttempt        \* the attempt of the retried fetch (0-based)

retryVars == <<rpc, rconfig, viaCondition, attempt, calls, waits, errs, lastError,
               thrown, nonRetryableLogged, operation, errorLog>>

normVars == <<npc, boxTariffs, today, processedTariffs>>

storeVars == <<store, nextId, dbClock, alive, tx>>

syncVars == <<spreadsheetIds, sheet, syncPc, sync, syncResults>>

appVars == <<env, appPc, isRunning, tariffFetchTask, sheetsSyncTask, hour, minute,
             fetchInFlight, syncInFlight, failureSeen>>

fetchVars == <<fpc, timeoutArmed, responseStatus, causes>>

predVars == <<srPc, srError, srResult>>

queryVars == <<qpc, qKind, qDate, qResult>>

cycleVars == <<cpc, clockDay, cyclesStarted, cycleFailures, storeBefore, cycleError, cycleFailedAt>>

schedVars == <<activeFetchTasks, activeSyncTasks, startCalls, lastCall>>

dateVars == <<dpc, clockMinutes, tzOffset, dateParam, rowDate, dAttempt>>

vars == <<retryVars, normVars, storeVars, syncVars, appVars, fetchVars, predVars, queryVars, cycleVars, schedVars, dateVars>>

-----------------------------------------------------------------------------
(* Bounds of the model *)

MaxAttempts == 4
MaxInitialDelay == 2
MaxDelayBound == 5
MaxMultiplier == 3
MaxFracDigits == 3
MaxRawLen == 2
MaxDay == 2
MaxBatch == 2
MaxInFlight == 2
MaxCycles == 3
MaxStartCalls == 3

-----------------------------------------------------------------------------
(* Helpers *)

Min(a, b) == IF a <= b THEN a ELSE b

RECURSIVE Pow(_, _)
Pow(b, e) == IF e = 0 THEN 1 ELSE b * Pow(b, e - 1)

-----------------------------------------------------------------------------
(* utils/retry.ts *)

\* Errors an operation can fail with, by the fields shouldRetry inspects:
\* response.status (0: no response), code and name.
NoError == [status |-> 0, code |-> "", name |-> "none"]
HttpError(s) == [status |-> s, code |-> "", name |-> "Error"]
TimeoutError == [status |-> 0, code |-> "ETIMEDOUT", name |-> "TimeoutError"]
ZodError == [status |-> 0, code |-> "", name |-> "ZodError"]

Errors == {HttpError(401), HttpError(503), TimeoutError, ZodError}

DEFAULT_RETRY_CONFIG ==
    [maxAttempts |-> 3, initialDelay |-> 5 * 60 * 1000,
     maxDelay |-> 30 * 60 * 1000, backoffMultiplier |-> 2]

\* The configuration fetchBoxTariffs passes to retryWithCondition.
WBRetryConfig ==
    [maxAttempts |-> 3, initialDelay |-> 5 * 60 * 1000,
     maxDelay |-> 30 * 60 * 1000, backoffMultiplier |-> 2]

\* Valid configurations: maxAttempts >= 1, initialDelay > 0,
\* maxDelay >= initialDelay, backoffMultiplier >= 1.
RetryConfigs ==
    {WBRetryConfig} \cup
    {c \in [maxAttempts : 1..MaxAttempts, initialDelay : 1..MaxInitialDelay,
            maxDelay : 1..MaxDelayBound, backoffMultiplier : 1..MaxMultiplier] :
        c.maxDelay >= c.initialDelay}

calculateDelayNoCap(att, config) ==
    config.initialDelay * Pow(config.backoffMultiplier, att)

calculateDelayOffByOne(att, config) ==
    Min(config.initialDelay * Pow(config.backoffMultiplier, att + 1), config.maxDelay)

calculateDelay(att, config) ==
    Min(config.initialDelay * Pow(config.backoffMultiplier, att), config.maxDelay)

shouldRetryNetworkFirst(error) ==
    IF error.code \in {"ECONNREFUSED", "ETIMEDOUT", "ENOTFOUND"} THEN TRUE
    ELSE IF error.status = 401 \/ error.status = 403 THEN FALSE
    ELSE IF error.status >= 500 THEN TRUE
    ELSE IF error.status = 429 THEN TRUE
    ELSE IF error.name = "TimeoutError" \/ error.code = "ETIMEDOUT" THEN TRUE
    ELSE FALSE

shouldRetry(error) ==
    IF error.status = 401 \/ error.status = 403 THEN FALSE
    ELSE IF error.code \in {"ECONNREFUSED", "ETIMEDOUT", "ENOTFOUND"} THEN TRUE
    ELSE IF error.status >= 500 THEN TRUE
    ELSE IF error.status = 429 THEN TRUE
    ELSE IF error.name = "TimeoutError" \/ error.code = "ETIMEDOUT" THEN TRUE
    ELSE FALSE

\* The catch block of retryWithCondition's wrapper: a non-retryable error is
\* logged, and the error is rethrown to retry on both branches.
WrapperRethrows(error) == TRUE

\* The loop condition of retry: attempt < config.maxAttempts.
LoopContinues(att, config) == att < config.maxAttempts

isLastAttemptNever(att, config) == FALSE

isLastAttemptEarly(att, config) == att + 1 = config.maxAttempts - 1

isLastAttempt(att, config) == att = config.maxAttempts - 1

\* The labels a caller passes as operationName; "" stands for none.
OperationNames == {"", "WB API fetchBoxTariffs"}

KeepFirstError(previous, error) == IF previous = NoError THEN error ELSE previous

\* lastError = error in the catch block: the latest error replaces the one
\* kept so far.
NextLastError(previous, error) == error

\* logger.error(`${operation} failed after ${config.maxAttempts} attempts`,
\* lastError): the message names the label and the attempt count.
ExhaustedLog(label, config, error) ==
    [operation |-> label, attempts |-> config.maxAttempts, error |-> error]

RetryIdle ==
    /\ rpc = "idle"
    /\ rconfig = DEFAULT_RETRY_CONFIG
    /\ viaCondition = FALSE
    /\ attempt = 0
    /\ calls = 0
    /\ waits = <<>>
    /\ errs = <<>>
    /\ lastError = NoError
    /\ thrown = NoError
    /\ nonRetryableLogged = 0
    /\ operation = "operation"
    /\ errorLog = <<>>

\* retry(fn, options, operationName) or retryWithCondition(...) is called:
\* the configuration is merged and the loop is entered with attempt = 0.
RetryStart(config, cond, operationName) ==
    /\ rpc = "idle"
    /\ rconfig' = config
    /\ viaCondition' = cond
    /\ operation' = IF operationName = "" THEN "operation" ELSE operationName
    /\ attempt' = 0
    /\ rpc' = IF LoopContinues(0, config) THEN "attempt" ELSE "thrown"
    /\ UNCHANGED <<calls, waits, errs, lastError, thrown, nonRetryableLogged,
                   errorLog>>

\* fn() resolves: retry returns its result at once.
AttemptSucceeds ==
    /\ rpc = "attempt"
    /\ calls' = calls + 1
    /\ rpc' = "returned"
    /\ UNCHANGED <<rconfig, viaCondition, attempt, waits, errs, lastError, thrown,
                   nonRetryableLogged, operation, errorLog>>

\* fn() rejects with error e: the catch block of retry.
AttemptFails(e) ==
    /\ rpc = "attempt"
    /\ calls' = calls + 1
    /\ errs' = Append(errs, e)
    /\ nonRetryableLogged' =
         IF viaCondition /\ ~shouldRetry(e) THEN nonRetryableLogged + 1
         ELSE nonRetryableLogged
    /\ WrapperRethrows(e)
    /\ lastError' = NextLastError(lastError, e)
    /\ IF isLastAttempt(attempt, rconfig)
       THEN /\ thrown' = lastError'
            /\ errorLog' = Append(errorLog, ExhaustedLog(operation, rconfig, lastError'))
            /\ rpc' = "thrown"
            /\ UNCHANGED waits
       ELSE /\ waits' = Append(waits, calculateDelay(attempt, rconfig))
            /\ rpc' = "sleeping"
            /\ UNCHANGED <<thrown, errorLog>>
    /\ UNCHANGED <<rconfig, viaCondition, attempt, operation>>

\* The sleep timer fires: the loop increments attempt and, while
\* attempt < maxAttempts, invokes fn again.
SleepDone ==
    /\ rpc = "sleeping"
    /\ attempt' = attempt + 1
    /\ IF LoopContinues(attempt + 1, rconfig)
       THEN rpc' = "attempt" /\ UNCHANGED thrown
       ELSE rpc' = "thrown" /\ thrown' = lastError
    /\ UNCHANGED <<rconfig, viaCondition, calls, waits, errs, lastError,
                   nonRetryableLogged, operation, errorLog>>

-----------------------------------------------------------------------------
(* Strings and numbers of the normalizer *)

\* A string is a sequence of characters; a character is a one-letter name.
\* Cyrillic letters are written by name: cy_k cy_o cy_e cy_f cy_i cy_c cy_n
\* cy_t cy_ie are the letters of "koeffitsient", cy_h / CY_H is the Cyrillic
\* kha in lower / upper case. The alphabet has no exponent marker and no
\* "Infinity", so parseFloat reads plain decimal numbers only.
Digits == {"0", "1", "2", "3", "4", "5", "6", "7", "8", "9"}

DigitValue(c) ==
    CASE c = "0" -> 0 [] c = "1" -> 1 [] c = "2" -> 2 [] c = "3" -> 3
      [] c = "4" -> 4 [] c = "5" -> 5 [] c = "6" -> 6 [] c = "7" -> 7
      [] c = "8" -> 8 [] c = "9" -> 9

\* An optional field that the payload does not carry (undefined).
Undefined == <<"undefined">>

\* JavaScript truthiness of an optional string field.
Truthy(f) == f # Undefined /\ f # <<>>

\* Numbers are fixed-point integers counting units of 10^-MaxFracDigits.
Scale == Pow(10, MaxFracDigits)

\* The number whole + hundredths/100, e.g. Dec(2, 30) is 2.30.
Dec(whole, hundredths) == whole * Scale + hundredths * (Scale \div 100)

\* A parsed number: NaN, or the value v.
NaN == [nan |-> TRUE, v |-> 0]
Num(v) == [nan |-> FALSE, v |-> v]

RECURSIVE SkipWhitespace(_)
SkipWhitespace(s) ==
    IF s # <<>> /\ Head(s) = " " THEN SkipWhitespace(Tail(s)) ELSE s

RECURSIVE TrimEnd(_)
TrimEnd(s) ==
    IF s # <<>> /\ s[Len(s)] = " " THEN TrimEnd(SubSeq(s, 1, Len(s) - 1)) ELSE s

\* String.prototype.trim
Trim(s) == TrimEnd(SkipWhitespace(s))

\* The longest prefix of s made of digits.
RECURSIVE TakeDigits(_)
TakeDigits(s) ==
    IF s # <<>> /\ Head(s) \in Digits THEN <<Head(s)>> \o TakeDigits(Tail(s)) ELSE <<>>

RECURSIVE IntValue(_)
IntValue(ds) ==
    IF ds = <<>> THEN 0
    ELSE IntValue(SubSeq(ds, 1, Len(ds) - 1)) * 10 + DigitValue(ds[Len(ds)])

\* The value of the fraction digits ds, in units of 10^-MaxFracDigits.
RECURSIVE FracValue(_, _)
FracValue(ds, unit) ==
    IF ds = <<>> \/ unit = 0 THEN 0
    ELSE DigitValue(Head(ds)) * unit + FracValue(Tail(ds), unit \div 10)

\* parseFloat: leading whitespace is skipped, then an optional sign, digits,
\* an optional point and digits; the longest such prefix is the number, and
\* a string with no digit there gives NaN.
parseFloat(str) ==
    LET s0 == SkipWhitespace(str)
        signed == s0 # <<>> /\ Head(s0) \in {"-", "+"}
        sign == IF signed /\ Head(s0) = "-" THEN -1 ELSE 1
        s1 == IF signed THEN Tail(s0) ELSE s0
        whole == TakeDigits(s1)
        s2 == SubSeq(s1, Len(whole) + 1, Len(s1))
        frac == IF s2 # <<>> /\ Head(s2) = "." THEN TakeDigits(Tail(s2)) ELSE <<>>
    IN  IF whole = <<>> /\ frac = <<>> THEN NaN
        ELSE Num(sign * (IntValue(whole) * Scale + FracValue(frac, Scale \div 10)))

isNaN(n) == n.nan

\* Lower-casing, for the i flag of the regular expression.
ToLower(c) == CASE c = "X" -> "x" [] c = "CY_H" -> "cy_h" [] OTHER -> c

StartsWithIgnoreCase(s, prefix) ==
    /\ Len(s) >= Len(prefix)
    /\ \A i \in 1..Len(prefix) : ToLower(s[i]) = prefix[i]

Koef == <<"cy_k", "cy_o", "cy_e", "cy_f", ".">>
Koefficient ==
    <<"cy_k", "cy_o", "cy_e", "cy_f", "cy_f", "cy_i", "cy_c", "cy_i", "cy_ie", "cy_n", "cy_t">>

\* expr.replace(/[x cy_h X CY_H]|koef\.|koefficient/gi, ""): every match is
\* removed, scanning left to right, the alternatives tried in order.
RECURSIVE StripMarkers(_)
StripMarkers(s) ==
    IF s = <<>> THEN <<>>
    ELSE IF ToLower(Head(s)) \in {"x", "cy_h"} THEN StripMarkers(Tail(s))
    ELSE IF StartsWithIgnoreCase(s, Koef)
         THEN StripMarkers(SubSeq(s, Len(Koef) + 1, Len(s)))
    ELSE IF StartsWithIgnoreCase(s, Koefficient)
         THEN StripMarkers(SubSeq(s, Len(Koefficient) + 1, Len(s)))
    ELSE <<Head(s)>> \o StripMarkers(Tail(s))

\* value.replace(",", "."): the first comma only.
RECURSIVE ReplaceFirstComma(_)
ReplaceFirstComma(s) ==
    IF s = <<>> THEN <<>>
    ELSE IF Head(s) = "," THEN <<".">> \o Tail(s)
    ELSE <<Head(s)>> \o ReplaceFirstComma(Tail(s))

-----------------------------------------------------------------------------
(* services/tariff/tariff-service.ts *)

extractCoefficient(expr) ==
    LET cleaned == Trim(StripMarkers(expr))
        coefficient == parseFloat(cleaned)
    IN  IF isNaN(coefficient) THEN Dec(1, 0) ELSE coefficient.v

parseNumber(value) ==
    LET num == parseFloat(ReplaceFirstComma(value))
    IN  IF isNaN(num) THEN 0 ELSE num.v

\* The value a fallback field contributes: its number when the field is
\* truthy and the number is positive, otherwise nothing (0).
FieldCoefficient(f) ==
    IF Truthy(f) /\ parseNumber(f) > 0 THEN parseNumber(f) ELSE 0

calculateCoefficient(boxTariff) ==
    IF Truthy(boxTariff.boxDeliveryAndStorageExpr)
        THEN extractCoefficient(boxTariff.boxDeliveryAndStorageExpr)
    ELSE IF FieldCoefficient(boxTariff.boxDeliveryBase) > 0
        THEN FieldCoefficient(boxTariff.boxDeliveryBase)
    ELSE IF FieldCoefficient(boxTariff.boxDeliveryLiter) > 0
        THEN FieldCoefficient(boxTariff.boxDeliveryLiter)
    ELSE IF FieldCoefficient(boxTariff.boxStorageBase) > 0
        THEN FieldCoefficient(boxTariff.boxStorageBase)
    ELSE IF FieldCoefficient(boxTariff.boxStorageLiter) > 0
        THEN FieldCoefficient(boxTariff.boxStorageLiter)
    ELSE 0

\* The expression checked before the three cost fields.
determineDeliveryTypeExprFirst(boxTariff) ==
    IF Truthy(boxTariff.boxDeliveryAndStorageExpr) THEN "Delivery"
    ELSE IF Truthy(boxTariff.boxDeliveryBase) /\ boxTariff.boxDeliveryBase # <<"0">>
        THEN "Standard"
    ELSE IF Truthy(boxTariff.boxDeliveryLiter) /\ boxTariff.boxDeliveryLiter # <<"0">>
        THEN "Liter-based"
    ELSE IF Truthy(boxTariff.boxStorageBase) /\ boxTariff.boxStorageBase # <<"0">>
        THEN "Storage"
    ELSE "Unknown"

determineDeliveryType(boxTariff) ==
    IF Truthy(boxTariff.boxDeliveryBase) /\ boxTariff.boxDeliveryBase # <<"0">>
        THEN "Standard"
    ELSE IF Truthy(boxTariff.boxDeliveryLiter) /\ boxTariff.boxDeliveryLiter # <<"0">>
        THEN "Liter-based"
    ELSE IF Truthy(boxTariff.boxStorageBase) /\ boxTariff.boxStorageBase # <<"0">>
        THEN "Storage"
    ELSE IF Truthy(boxTariff.boxDeliveryAndStorageExpr) THEN "Delivery"
    ELSE "Unknown"

\* The name as given, without the default.
DefaultBoxTypeNone(boxTypeName) == boxTypeName

\* boxTariff.boxTypeName || "Box"; names are atomic strings, "" when absent.
DefaultBoxType(boxTypeName) == IF boxTypeName = "" THEN "Box" ELSE boxTypeName

\* The entry is skipped when its coefficient is 0.
SkipsEntry(coefficient) == coefficient = 0

\* The body of the loop of transformBoxTariffs for one entry: the entries it
\* appends to processedTariffs (none when the entry is skipped).
TransformEntry(boxTariff, day) ==
    LET coefficient == calculateCoefficient(boxTariff)
    IN  IF SkipsEntry(coefficient) THEN <<>>
        ELSE << [date |-> day,
                 warehouseName |-> boxTariff.warehouseName,
                 boxType |-> DefaultBoxType(boxTariff.boxTypeName),
                 deliveryType |-> determineDeliveryType(boxTariff),
                 coefficient |-> coefficient,
                 rawData |-> boxTariff] >>

\* With a cache of the entries already transformed, kept between calls.
RECURSIVE transformBoxTariffsCached(_, _)
transformBoxTariffsCached(list, day) ==
    IF list = <<>> THEN <<>>
    ELSE (IF \E k \in 1..Len(processedTariffs) : processedTariffs[k].rawData = Head(list)
          THEN <<>> ELSE TransformEntry(Head(list), day))
         \o transformBoxTariffsCached(Tail(list), day)

RECURSIVE transformBoxTariffs(_, _)
transformBoxTariffs(list, day) ==
    IF list = <<>> THEN <<>>
    ELSE TransformEntry(Head(list), day) \o transformBoxTariffs(Tail(list), day)

\* Raw entries as the validated payload carries them (BoxTariffSchema: every
\* cost field is a string or absent).
ExprStrings ==
    {Undefined, <<>>, <<"x", "1", ".", "5">>, <<"x", "0">>, <<"-", "1", ".", "5">>,
     <<"a">>, <<"cy_k", "cy_o", "cy_e", "cy_f", ".", " ", "2">>}
DeliveryBaseStrings == {Undefined, <<"0">>, <<"2", ",", "3", "0">>, <<"a">>}
DeliveryLiterStrings == {Undefined, <<"0">>, <<"1", ".", "2", "5">>}
StorageBaseStrings == {Undefined, <<"-", "3">>, <<"0", ",", "1", "2", "5">>}
StorageLiterStrings == {Undefined, <<"7">>}

RawEntries ==
    [warehouseName : {"Koledino"},
     boxTypeName : {"", "Mono"},
     boxDeliveryAndStorageExpr : ExprStrings,
     boxDeliveryBase : DeliveryBaseStrings,
     boxDeliveryLiter : DeliveryLiterStrings,
     boxStorageBase : StorageBaseStrings,
     boxStorageLiter : StorageLiterStrings]

\* Entries that follow the first one of a list.
FollowEntries ==
    {e \in RawEntries :
        /\ e.boxTypeName = ""
        /\ e.boxDeliveryLiter = Undefined
        /\ e.boxStorageBase = Undefined
        /\ e.boxStorageLiter = Undefined
        /\ e.boxDeliveryAndStorageExpr \in {Undefined, <<"-", "1", ".", "5">>}
        /\ e.boxDeliveryBase \in {Undefined, <<"2", ",", "3", "0">>}}

RECURSIVE SeqsUpTo(_, _)
SeqsUpTo(S, n) ==
    IF n = 0 THEN {<<>>}
    ELSE LET shorter == SeqsUpTo(S, n - 1)
         IN  shorter \cup {Append(q, x) : q \in shorter, x \in S}

RawLists ==
    {<<>>} \cup {<<e>> \o rest : e \in RawEntries, rest \in SeqsUpTo(FollowEntries, MaxRawLen - 1)}

Days == 1..MaxDay

NormIdle ==
    /\ npc = "idle"
    /\ boxTariffs = <<>>
    /\ today = 1
    /\ processedTariffs = <<>>

\* fetchAndStoreTariffs has received the list from the Source Client.
NormReady ==
    /\ npc = "ready"
    /\ boxTariffs \in RawLists
    /\ today \in Days
    /\ processedTariffs = <<>>

\* this.transformBoxTariffs(boxTariffs)
Transform ==
    /\ npc = "ready"
    /\ processedTariffs' = transformBoxTariffs(boxTariffs, today)
    /\ npc' = "done"
    /\ UNCHANGED <<boxTariffs, today>>

\* transformBoxTariffs is called again with the same list: new Date() is read
\* again, the clock showing the same day or a later one.
TransformAgain(day) ==
    /\ npc = "done"
    /\ day >= today
    /\ today' = day
    /\ processedTariffs' = transformBoxTariffs(boxTariffs, day)
    /\ npc' = "again"
    /\ UNCHANGED boxTariffs

-----------------------------------------------------------------------------
(* services/tariff/tariff-repository.ts over the tariffs table *)

\* The calls of upsertDailyTariffs of a run. They may follow one another or
\* overlap (the initial fetch, a scheduled fetch, a fetch still retrying
\* from an earlier firing).
Procs == {"call1", "call2"}

\* n thousandths, in the units of the model's numbers.
Milli(n) == n * (Scale \div 1000)

Tariff(date, warehouseName, coefficient, rawData) ==
    [date |-> date, warehouseName |-> warehouseName, boxType |-> "Box",
     deliveryType |-> "Standard", coefficient |-> coefficient, rawData |-> rawData]

\* ProcessedTariff values handed to upsertDailyTariffs: two values for one
\* key, and another warehouse on a later day. rawData is the raw entry, kept
\* as a token here.
StoreTariffs ==
    {Tariff(1, "Koledino", Milli(1100), "rawA"),
     Tariff(1, "Koledino", Milli(2505), "rawB"),
     Tariff(2, "Podolsk", Milli(3000), "rawC")}

Batches == SeqsUpTo(StoreTariffs, MaxBatch)

\* JSON.stringify(tariff.rawData), and what the jsonb column gives back.
JSONStringify(obj) == <<"json", obj>>
JSONParse(text) == text[2]

\* The coefficient column is numeric(10, 2): a value is rounded to two
\* decimals, half away from zero.
ToNumeric2(c) ==
    LET unit == Scale \div 100
        mag == IF c < 0 THEN -c ELSE c
        q == (mag + unit \div 2) \div unit
    IN  (IF c < 0 THEN -1 ELSE 1) * q * unit

\* The columns of the unique constraint unique_daily_tariff.
UniqueIndex == {"date", "warehouse_name", "box_type", "delivery_type"}

\* The conflict target without the date.
ConflictTargetNoDate == {"warehouse_name", "box_type", "delivery_type"}

\* The columns named by onConflict.
ConflictTarget == {"date", "warehouse_name", "box_type", "delivery_type"}

SameOn(cols, r1, r2) == \A c \in cols : r1[c] = r2[c]

\* The row object built from a tariff (tariffs.map); updated_at is
\* knex.fn.now(), the start time of the transaction that runs the statement.
RowOf(tariff, now) ==
    [date |-> tariff.date,
     warehouse_name |-> tariff.warehouseName,
     box_type |-> tariff.boxType,
     delivery_type |-> tariff.deliveryType,
     coefficient |-> tariff.coefficient,
     raw_data |-> JSONStringify(tariff.rawData),
     updated_at |-> now]

\* A new table row: id from the sequence, created_at by its default now().
NewRow(row, id, now) ==
    [id |-> id,
     date |-> row.date,
     warehouse_name |-> row.warehouse_name,
     box_type |-> row.box_type,
     delivery_type |-> row.delivery_type,
     coefficient |-> ToNumeric2(row.coefficient),
     raw_data |-> row.raw_data,
     created_at |-> now,
     updated_at |-> row.updated_at]

\* The existing row replaced by the new one: created_at is set again.
MergeRowReplacing(existing, row) ==
    [existing EXCEPT !.coefficient = ToNumeric2(row.coefficient),
                     !.raw_data = row.raw_data,
                     !.created_at = row.updated_at,
                     !.updated_at = row.updated_at]

\* .merge({coefficient, raw_data, updated_at}) applied to an existing row.
MergeRow(existing, row) ==
    [existing EXCEPT !.coefficient = ToNumeric2(row.coefficient),
                     !.raw_data = row.raw_data,
                     !.updated_at = row.updated_at]

\* .onConflict(...).ignore(): the existing row is kept as it is.
InsertOnConflictIgnore(visible, row, id, now) ==
    IF \E r \in visible : SameOn(ConflictTarget, r, row)
    THEN visible
    ELSE visible \cup {NewRow(row, id, now)}

InsertPlain(visible, row, id, now) == visible \cup {NewRow(row, id, now)}

InsertMergeCoefficientOnly(visible, row, id, now) ==
    LET conflicts == {r \in visible : SameOn(ConflictTarget, r, row)}
    IN  IF conflicts # {}
        THEN (visible \ conflicts) \cup
             {[r EXCEPT !.coefficient = ToNumeric2(row.coefficient)] : r \in conflicts}
        ELSE visible \cup {NewRow(row, id, now)}

\* trx("tariffs").insert(row).onConflict([...]).merge({...}) on the rows the
\* transaction sees: the table after the statement.
InsertOnConflictMerge(visible, row, id, now) ==
    LET conflicts == {r \in visible : SameOn(ConflictTarget, r, row)}
    IN  IF conflicts # {}
        THEN (visible \ conflicts) \cup {MergeRow(r, row) : r \in conflicts}
        ELSE visible \cup {NewRow(row, id, now)}

\* The rows transaction p sees: the committed rows, with its own uncommitted
\* versions in place of the rows they replace.
Visible(p) ==
    {r \in store : \A w \in tx[p].written : w.id # r.id} \cup tx[p].written

\* The statement for row waits while another open transaction holds an
\* uncommitted version of a row with the same unique key.
Blocked(p, row) ==
    \E q \in Procs \ {p} :
        /\ tx[q].state = "active"
        /\ \E w \in tx[q].written : SameOn(UniqueIndex, w, row)

StoreAfterStatementAutocommit(committed, seen) == seen

\* Inside knex.transaction a statement changes what the transaction sees,
\* not the committed table.
StoreAfterStatement(committed, seen) == committed

NoCall == [state |-> "idle", batch |-> <<>>, i |-> 0, written |-> {}, now |-> 0,
           result |-> 0, error |-> ""]

StoreIdle ==
    /\ store = {}
    /\ nextId = 1
    /\ dbClock = 0
    /\ alive = TRUE
    /\ tx = [p \in Procs |-> NoCall]

\* upsertDailyTariffs(tariffs) is called: an empty list returns 0 at once,
\* otherwise the row objects are built and the transaction is opened.
BeginUpsert(p, batch) ==
    /\ alive
    /\ tx[p].state = "idle"
    /\ IF Len(batch) = 0
       THEN /\ tx' = [tx EXCEPT ![p] = [NoCall EXCEPT !.state = "returned"]]
            /\ UNCHANGED dbClock
       ELSE /\ dbClock' = dbClock + 1
            /\ tx' = [tx EXCEPT ![p] =
                         [state |-> "active", batch |-> batch, i |-> 0,
                          written |-> {}, now |-> dbClock + 1, result |-> 0,
                          error |-> ""]]
    /\ UNCHANGED <<store, nextId, alive>>

\* One iteration of the loop inside the transaction: the insert-or-merge
\* statement for the next row.
UpsertRow(p) ==
    /\ alive
    /\ tx[p].state = "active"
    /\ tx[p].i < Len(tx[p].batch)
    /\ LET row == RowOf(tx[p].batch[tx[p].i + 1], tx[p].now)
           seen == InsertOnConflictMerge(Visible(p), row, nextId, tx[p].now)
       IN  /\ ~Blocked(p, row)
           /\ tx' = [tx EXCEPT ![p].i = @ + 1,
                               ![p].written = {r \in seen : r \notin store}]
           /\ store' = StoreAfterStatement(store, seen)
    /\ nextId' = nextId + 1
    /\ UNCHANGED <<dbClock, alive>>

\* The number of rows the batch leaves in the table.
UpsertResultRowsAffected(batch) ==
    Cardinality({<<batch[k].date, batch[k].warehouseName, batch[k].boxType,
                   batch[k].deliveryType>> : k \in 1..Len(batch)})

\* return tariffs.length
UpsertResult(batch) == Len(batch)

\* The callback has run every statement: the transaction commits and
\* upsertDailyTariffs returns tariffs.length.
CommitUpsert(p) ==
    /\ alive
    /\ tx[p].state = "active"
    /\ tx[p].i = Len(tx[p].batch)
    /\ store' = Visible(p)
    /\ tx' = [tx EXCEPT ![p].state = "committed", ![p].written = {},
                        ![p].result = UpsertResult(tx[p].batch)]
    /\ UNCHANGED <<nextId, dbClock, alive>>

\* A statement or the commit fails (connection lost, a value the column
\* rejects): the transaction is rolled back and the error is rethrown.
UpsertFails(p) ==
    /\ alive
    /\ tx[p].state = "active"
    /\ tx' = [tx EXCEPT ![p].state = "failed", ![p].written = {},
                        ![p].error = "query failed"]
    /\ UNCHANGED <<store, nextId, dbClock, alive>>

\* The statement transaction p is about to run waits for a row lock that
\* transaction q holds.
WaitsFor(p, q) ==
    /\ p # q
    /\ tx[p].state = "active"
    /\ tx[q].state = "active"
    /\ tx[p].i < Len(tx[p].batch)
    /\ \E w \in tx[q].written :
          SameOn(UniqueIndex, w, RowOf(tx[p].batch[tx[p].i + 1], tx[p].now))

\* Nothing in upsertDailyTariffs orders the rows of a batch or retries the
\* transaction: when two transactions wait for each other's row locks the
\* database ends the wait by aborting one of them (deadlock detected); its
\* statement rejects, the transaction is rolled back and the error rethrown.
DeadlockDetected(p) ==
    /\ alive
    /\ \E q \in Procs : WaitsFor(p, q) /\ WaitsFor(q, p)
    /\ tx' = [tx EXCEPT ![p].state = "failed", ![p].written = {},
                        ![p].error = "deadlock detected"]
    /\ UNCHANGED <<store, nextId, dbClock, alive>>

\* SIGTERM / SIGINT: the scheduler is stopped and process.exit(0) is called;
\* the database rolls back every transaction whose connection went away.
Shutdown ==
    /\ alive
    /\ alive' = FALSE
    /\ tx' = [p \in Procs |->
                IF tx[p].state = "active"
                THEN [tx[p] EXCEPT !.state = "abandoned", !.written = {}]
                ELSE tx[p]]
    /\ UNCHANGED <<store, nextId, dbClock>>

-----------------------------------------------------------------------------
(* google-sheets/sheets-sync.ts and sheets-client.ts *)

\* Values of GOOGLE_SPREADSHEET_IDS after split(",") and trim: the list is
\* kept as given, an id may be listed twice.
SheetIds == {"s1", "s2", "s3"}
SpreadsheetIdLists == {<<"s1">>, <<"s1", "s2", "s3">>, <<"s1", "s1">>}

DigitChar == <<"0", "1", "2", "3", "4", "5", "6", "7", "8", "9">>

\* String(n) of a non-negative integer.
RECURSIVE ToStr(_)
ToStr(n) == IF n < 10 THEN DigitChar[n + 1]
            ELSE ToStr(n \div 10) \o DigitChar[(n % 10) + 1]

\* s.padStart(2, "0")
PadStart2(s) == IF Len(s) < 2 THEN "0" \o s ELSE s

\* coefficient.toFixed(2)
formatCoefficient(coefficient) ==
    LET abs == IF coefficient < 0 THEN -coefficient ELSE coefficient
        h == (abs * 100 + Scale \div 2) \div Scale
        text == ToStr(h \div 100) \o "." \o DigitChar[((h \div 10) % 10) + 1]
                                  \o DigitChar[(h % 10) + 1]
    IN  IF coefficient < 0 /\ h # 0 THEN "-" \o text ELSE text

\* formatDate: YYYY-MM-DD of the local calendar day; the days of the model
\* are the days of one month.
formatDate(date) == "2025-01-" \o PadStart2(ToStr(date))

Header == <<"Warehouse", "Box Type", "Delivery Type", "Coefficient", "Date">>

\* The data rows alone, without the header row.
formatTariffsForSheetNoHeader(tariffs) ==
    [k \in 1..Len(tariffs) |->
        <<tariffs[k].warehouseName, tariffs[k].boxType, tariffs[k].deliveryType,
          formatCoefficient(tariffs[k].coefficient), formatDate(tariffs[k].date)>>]

formatTariffsForSheet(tariffs) ==
    <<Header>> \o
    [k \in 1..Len(tariffs) |->
        <<tariffs[k].warehouseName, tariffs[k].boxType, tariffs[k].deliveryType,
          formatCoefficient(tariffs[k].coefficient), formatDate(tariffs[k].date)>>]

\* mapRowToTariff: the numeric column comes back as its decimal text and
\* Number() reads it; a two-decimal value survives the round trip.
mapRowToTariff(row) ==
    [date |-> row.date, warehouseName |-> row.warehouse_name,
     boxType |-> row.box_type, deliveryType |-> row.delivery_type,
     coefficient |-> row.coefficient, rawData |-> JSONParse(row.raw_data)]

\* min in place of max.
MinDate(rows) ==
    IF rows = {} THEN 0
    ELSE CHOOSE d \in {r.date : r \in rows} : \A r \in rows : d <= r.date

\* max("date as maxDate"): 0 stands for the null of an empty table.
MaxDate(rows) ==
    IF rows = {} THEN 0
    ELSE CHOOSE d \in {r.date : r \in rows} : \A r \in rows : r.date <= d

\* The rows of the date in insertion order, without the orderBy.
RowsByInsertion(rows, latestDate) ==
    LET of == {r \in rows : r.date = latestDate}
        n == Cardinality(of)
    IN  {q \in [1..n -> of] :
            /\ \A a \in 1..n, b \in 1..n : a # b => q[a] # q[b]
            /\ \A a \in 1..n, b \in 1..n : a < b => q[a].id <= q[b].id}

\* where("date", latestDate).orderBy("coefficient", "asc"): every order of
\* the rows of that date in which the coefficient never decreases.
RowsByCoefficient(rows, latestDate) ==
    LET of == {r \in rows : r.date = latestDate}
        n == Cardinality(of)
    IN  {q \in [1..n -> of] :
            /\ \A a \in 1..n, b \in 1..n : a # b => q[a] # q[b]
            /\ \A a \in 1..n, b \in 1..n : a < b => q[a].coefficient <= q[b].coefficient}

\* values.clear on stocks_coefs!A:Z: no value is left in the region.
ClearRange(region) == <<>>

\* values.update at stocks_coefs!A1: the values replace the cells they cover,
\* every other cell of the region keeps what it held.
UpdateAtA1(region, values) ==
    LET n == IF Len(region) > Len(values) THEN Len(region) ELSE Len(values)
    IN  [k \in 1..n |->
            IF k > Len(values) THEN region[k]
            ELSE IF k > Len(region) \/ Len(region[k]) <= Len(values[k]) THEN values[k]
            ELSE values[k] \o SubSeq(region[k], Len(values[k]) + 1, Len(region[k]))]

\* A table an earlier sync wrote when the latest day had three rows.
EarlierTable ==
    <<Header,
      <<"Koledino", "Box", "Standard", "1.00", "2024-12-31">>,
      <<"Podolsk", "Box", "Standard", "1.50", "2024-12-31">>,
      <<"Kazan", "Box", "Standard", "2.00", "2024-12-31">>>>

DbErrorMessage == "Connection terminated unexpectedly"
SinkErrorMessage == "The caller does not have permission"

NoSyncResult == [spreadsheetId |-> "", success |-> FALSE, rowsUpdated |-> 0,
                 error |-> ""]

\* The SyncResult objects syncSheet returns; "" stands for the absent error.
SuccessResult(spreadsheetId, rowsUpdated) ==
    [spreadsheetId |-> spreadsheetId, success |-> TRUE,
     rowsUpdated |-> rowsUpdated, error |-> ""]

\* The failure result without the message of the error.
FailureResultNoMessage(spreadsheetId, errorMessage) ==
    [spreadsheetId |-> spreadsheetId, success |-> FALSE, rowsUpdated |-> 0,
     error |-> ""]

FailureResult(spreadsheetId, errorMessage) ==
    [spreadsheetId |-> spreadsheetId, success |-> FALSE, rowsUpdated |-> 0,
     error |-> errorMessage]

\* An empty list reported as a failure.
NoDataResultAsError(spreadsheetId) ==
    FailureResult(spreadsheetId, "No tariff data available to sync")

\* tariffs.length === 0: the early return of syncSheet.
NoDataResult(spreadsheetId) == SuccessResult(spreadsheetId, 0)

NoSync == [pc |-> "idle", latestDate |-> 0, tariffs |-> <<>>, sheetData |-> <<>>,
           failedOp |-> "", result |-> NoSyncResult]

Targets == 1..Len(spreadsheetIds)

SyncIdle ==
    /\ spreadsheetIds = <<>>
    /\ sheet = [id \in SheetIds |-> <<>>]
    /\ syncPc = "idle"
    /\ sync = <<>>
    /\ syncResults = <<>>

SyncReady ==
    /\ spreadsheetIds \in SpreadsheetIdLists
    /\ sheet = [id \in SheetIds |-> EarlierTable]
    /\ syncPc = "idle"
    /\ sync = [t \in Targets |-> NoSync]
    /\ syncResults = <<>>

\* The tariffs table when the service starts: empty, or holding the rows an
\* earlier run stored for day 1.
InitialStores ==
    {{},
     {NewRow(RowOf(Tariff(1, "Koledino", Milli(1100), "rawA"), 1), 1, 1),
      NewRow(RowOf(Tariff(1, "Podolsk", Milli(2505), "rawB"), 1), 2, 1)}}

StoreReady ==
    /\ store \in InitialStores
    /\ nextId = Cardinality(store) + 1
    /\ dbClock = IF store = {} THEN 0 ELSE 1
    /\ alive = TRUE
    /\ tx = [p \in Procs |-> NoCall]

\* The batch the fetch job stores while a sync runs: the first tariff of the
\* next day.
SyncBatches == {<<Tariff(2, "Koledino", Milli(3000), "rawC")>>}

\* syncAllSheets maps syncSheet over the configured ids: every call runs up
\* to its first await, the max(date) query.
SyncAllStart ==
    /\ syncPc = "idle"
    /\ syncPc' = "running"
    /\ sync' = [t \in Targets |-> [NoSync EXCEPT !.pc = "maxDate"]]
    /\ UNCHANGED <<spreadsheetIds, sheet, syncResults>>

\* getLatestDailyTariffs, first query: on an empty table it returns [] and
\* syncSheet reports success with no rows; otherwise the rows query follows.
ReadLatestDate(t) ==
    /\ sync[t].pc = "maxDate"
    /\ LET maxDate == MaxDate(store)
       IN  sync' = [sync EXCEPT ![t] =
                IF maxDate = 0
                THEN [@ EXCEPT !.pc = "settled",
                               !.result = NoDataResult(spreadsheetIds[t])]
                ELSE [@ EXCEPT !.pc = "rows", !.latestDate = maxDate]]
    /\ UNCHANGED <<spreadsheetIds, sheet, syncPc, syncResults>>

\* getLatestDailyTariffs, second query, and formatTariffsForSheet; batchUpdate
\* then issues the clear. A date without rows gives [] and the early return.
ReadRows(t) ==
    /\ sync[t].pc = "rows"
    /\ \E rows \in RowsByCoefficient(store, sync[t].latestDate) :
          LET tariffs == [k \in 1..Len(rows) |-> mapRowToTariff(rows[k])]
          IN  sync' = [sync EXCEPT ![t] =
                  IF Len(tariffs) = 0
                  THEN [@ EXCEPT !.pc = "settled",
                                 !.result = NoDataResult(spreadsheetIds[t])]
                  ELSE [@ EXCEPT !.pc = "clear", !.tariffs = tariffs,
                                 !.sheetData = formatTariffsForSheet(tariffs)]]
    /\ UNCHANGED <<spreadsheetIds, sheet, syncPc, syncResults>>

\* Either query fails: the catch of syncSheet turns the error into a result.
ReadFails(t) ==
    /\ sync[t].pc \in {"maxDate", "rows"}
    /\ sync' = [sync EXCEPT ![t] =
                   [@ EXCEPT !.pc = "settled", !.failedOp = "read",
                             !.result = FailureResult(spreadsheetIds[t], DbErrorMessage)]]
    /\ UNCHANGED <<spreadsheetIds, sheet, syncPc, syncResults>>

\* clearSheet succeeds; batchUpdate goes on to updateSheet.
ClearSheetOk(t) ==
    /\ sync[t].pc = "clear"
    /\ sheet' = [sheet EXCEPT ![spreadsheetIds[t]] = ClearRange(@)]
    /\ sync' = [sync EXCEPT ![t].pc = "update"]
    /\ UNCHANGED <<spreadsheetIds, syncPc, syncResults>>

\* updateSheet succeeds; syncSheet returns the success result.
UpdateSheetOk(t) ==
    /\ sync[t].pc = "update"
    /\ sheet' = [sheet EXCEPT ![spreadsheetIds[t]] = UpdateAtA1(@, sync[t].sheetData)]
    /\ sync' = [sync EXCEPT ![t] =
                   [@ EXCEPT !.pc = "settled",
                             !.result = SuccessResult(spreadsheetIds[t],
                                                      Len(sync[t].sheetData) - 1)]]
    /\ UNCHANGED <<spreadsheetIds, syncPc, syncResults>>

\* clearSheet or updateSheet fails: the request changed nothing, the error is
\* rethrown through batchUpdate and caught by syncSheet.
SinkFails(t) ==
    /\ sync[t].pc \in {"clear", "update"}
    /\ sync' = [sync EXCEPT ![t] =
                   [@ EXCEPT !.pc = "settled", !.failedOp = sync[t].pc,
                             !.result = FailureResult(spreadsheetIds[t], SinkErrorMessage)]]
    /\ UNCHANGED <<spreadsheetIds, sheet, syncPc, syncResults>>

SettledResultFailFast(t) ==
    IF \E u \in Targets : ~sync[u].result.success
    THEN LET u == CHOOSE v \in Targets : ~sync[v].result.success
         IN  FailureResult(spreadsheetIds[t], sync[u].result.error)
    ELSE sync[t].result

\* results.map((result, index) => ...) over the settled promises: syncSheet
\* never rejects, so entry index is the value its call returned.
SettledResult(t) == sync[t].result

\* Promise.allSettled has every promise settled; the results are collected by
\* index and returned.
SyncAllReturn ==
    /\ syncPc = "running"
    /\ \A t \in Targets : sync[t].pc = "settled"
    /\ syncResults' = [t \in Targets |-> SettledResult(t)]
    /\ syncPc' = "returned"
    /\ UNCHANGED <<spreadsheetIds, sheet, sync>>

-----------------------------------------------------------------------------
(* app.ts, scheduler/scheduler.ts, sheets-config.ts, SheetsClient constructor *)

\* The cron expressions the environment may give after envSchema.parse: the
\* default of an unset variable, an empty value, a text that is no cron
\* expression.
FetchCronValues == {"0 * * * *", "", "every hour"}
SyncCronValues == {"0 */6 * * *", "every six hours"}

\* The Google Sheets and scheduler part of the environment: the e-mail and
\* the key are set or not; the id list is unset, holds ids, or holds only
\* blank entries; the two cron expressions.
Environments ==
    [GOOGLE_SERVICE_ACCOUNT_EMAIL : BOOLEAN,
     GOOGLE_PRIVATE_KEY : BOOLEAN,
     GOOGLE_SPREADSHEET_IDS : {"unset", "ids", "blank"},
     TARIFF_FETCH_CRON : FetchCronValues,
     SHEETS_SYNC_CRON : SyncCronValues]

\* getSheetsConfig: null when a variable is missing, an exception when no id
\* is left after the blank ones are filtered out, otherwise the config.
getSheetsConfig(e) ==
    IF \/ ~e.GOOGLE_SERVICE_ACCOUNT_EMAIL
       \/ ~e.GOOGLE_PRIVATE_KEY
       \/ e.GOOGLE_SPREADSHEET_IDS = "unset"
    THEN "null"
    ELSE IF e.GOOGLE_SPREADSHEET_IDS = "blank" THEN "throws" ELSE "config"

\* new SheetsClient() at module level: authenticate reads
\* this.config.serviceAccountEmail, which throws on a null config; the catch
\* logs and rethrows. TRUE when the constructor returns.
authenticate(config) == config = "config"

\* The modules app.ts imports are evaluated before main() is called:
\* scheduler.ts imports sheets-sync.ts, which imports sheets-client.ts and
\* sheets-config.ts. An exception during evaluation ends the process.
ModulesLoad(e) ==
    /\ getSheetsConfig(e) # "throws"
    /\ authenticate(getSheetsConfig(e))

\* The five-field cron expressions of the scheduler, as the minutes and hours
\* they match (day, month and weekday are "*"), timezone UTC.
TARIFF_FETCH_CRON == [minute |-> {0}, hour |-> 0..23]
SHEETS_SYNC_CRON == [minute |-> {0}, hour |-> {h \in 0..23 : h % 6 = 0}]

CronMatches(expr, h, m) == m \in expr.minute /\ h \in expr.hour

\* cron.validate(expression)
cronValidate(expression) == expression \in {"0 * * * *", "0 */6 * * *"}

\* env.X || fallback: an empty value gives the fallback.
cronExpression(value, fallback) == IF value = "" THEN fallback ELSE value

\* The minutes and hours a valid expression matches.
CronFields(expression) ==
    IF expression = "0 * * * *" THEN TARIFF_FETCH_CRON ELSE SHEETS_SYNC_CRON

\* The expressions scheduleHourlyTariffFetch and scheduleSheetsSync use.
FetchExpression(e) == cronExpression(e.TARIFF_FETCH_CRON, "0 * * * *")
SyncExpression(e) == cronExpression(e.SHEETS_SYNC_CRON, "0 */6 * * *")

\* What the catch of a task callback leaves of the process: it logs the
\* error and the callback returns.
CallbackCatchMissing(pc) == "crashed"

CallbackCatch(pc) == pc

\* scheduleSheetsSync returns without scheduling when a variable is missing.
SheetsSyncScheduled(e) ==
    /\ e.GOOGLE_SERVICE_ACCOUNT_EMAIL
    /\ e.GOOGLE_PRIVATE_KEY
    /\ e.GOOGLE_SPREADSHEET_IDS # "unset"

AppIdle ==
    /\ env = [GOOGLE_SERVICE_ACCOUNT_EMAIL |-> TRUE, GOOGLE_PRIVATE_KEY |-> TRUE,
              GOOGLE_SPREADSHEET_IDS |-> "ids", TARIFF_FETCH_CRON |-> "0 * * * *",
              SHEETS_SYNC_CRON |-> "0 */6 * * *"]
    /\ appPc = "boot"
    /\ isRunning = FALSE
    /\ tariffFetchTask = FALSE
    /\ sheetsSyncTask = FALSE
    /\ hour = 0 /\ minute = 0
    /\ fetchInFlight = 0
    /\ syncInFlight = 0
    /\ failureSeen = "none"

AppReady ==
    /\ env \in Environments
    /\ appPc = "boot"
    /\ isRunning = FALSE
    /\ tariffFetchTask = FALSE
    /\ sheetsSyncTask = FALSE
    /\ hour \in 0..23 /\ minute \in 0..59
    /\ fetchInFlight = 0
    /\ syncInFlight = 0
    /\ failureSeen = "none"

\* node app.js: the imports are evaluated, then setupGracefulShutdown and
\* main() are called.
ImportModules ==
    /\ appPc = "boot"
    /\ appPc' = IF ModulesLoad(env) THEN "migrate" ELSE "crashed"
    /\ UNCHANGED <<env, isRunning, tariffFetchTask, sheetsSyncTask, hour, minute,
                   fetchInFlight, syncInFlight, failureSeen>>

\* main: migrate.latest() and seed.run(); a failure is caught by main, which
\* calls process.exit(1).
MigrateAndSeed(ok) ==
    /\ appPc = "migrate"
    /\ appPc' = IF ok THEN "initialFetch" ELSE "exited"
    /\ UNCHANGED <<env, isRunning, tariffFetchTask, sheetsSyncTask, hour, minute,
                   fetchInFlight, syncInFlight, failureSeen>>

\* Without the try/catch around the initial fetch: its failure reaches the
\* catch of main, which calls process.exit(1).
InitialFetchUncaught ==
    /\ appPc = "initialFetch"
    /\ appPc' = IF rpc = "thrown" THEN "exited" ELSE "startScheduler"
    /\ UNCHANGED <<env, isRunning, tariffFetchTask, sheetsSyncTask, hour, minute,
                   fetchInFlight, syncInFlight, failureSeen>>

\* main: the initial fetchAndStoreTariffs is awaited; its failure is logged
\* and startup goes on.
InitialFetch ==
    /\ appPc = "initialFetch"
    /\ appPc' = "startScheduler"
    /\ UNCHANGED <<env, isRunning, tariffFetchTask, sheetsSyncTask, hour, minute,
                   fetchInFlight, syncInFlight, failureSeen>>

\* scheduler.start(): scheduleHourlyTariffFetch validates its expression and
\* creates the fetch task; scheduleSheetsSync returns when Sheets is not
\* configured, otherwise validates its expression and creates the sync task.
\* An expression that fails cron.validate makes start throw; main catches
\* and calls process.exit(1).
SchedulerStart ==
    /\ appPc = "startScheduler"
    /\ ~isRunning
    /\ IF ~cronValidate(FetchExpression(env))
       THEN /\ appPc' = "exited"
            /\ UNCHANGED <<tariffFetchTask, sheetsSyncTask, isRunning>>
       ELSE IF ~SheetsSyncScheduled(env)
       THEN /\ tariffFetchTask' = TRUE
            /\ isRunning' = TRUE
            /\ appPc' = "running"
            /\ UNCHANGED sheetsSyncTask
       ELSE IF ~cronValidate(SyncExpression(env))
       THEN /\ tariffFetchTask' = TRUE
            /\ appPc' = "exited"
            /\ UNCHANGED <<sheetsSyncTask, isRunning>>
       ELSE /\ tariffFetchTask' = TRUE
            /\ sheetsSyncTask' = TRUE
            /\ isRunning' = TRUE
            /\ appPc' = "running"
    /\ UNCHANGED <<env, hour, minute, fetchInFlight, syncInFlight, failureSeen>>

\* The clock reaches the next minute; node-cron calls the callback of every
\* task whose expression matches it, whether or not an earlier invocation of
\* the task is still in progress.
Tick ==
    /\ appPc = "running"
    /\ LET m == (minute + 1) % 60
           h == IF minute = 59 THEN (hour + 1) % 24 ELSE hour
           fetchFires == tariffFetchTask
                           /\ CronMatches(CronFields(FetchExpression(env)), h, m)
           syncFires == sheetsSyncTask
                           /\ CronMatches(CronFields(SyncExpression(env)), h, m)
       IN  /\ fetchFires => fetchInFlight < MaxInFlight
           /\ syncFires => syncInFlight < MaxInFlight
           /\ minute' = m
           /\ hour' = h
           /\ fetchInFlight' = IF fetchFires THEN fetchInFlight + 1 ELSE fetchInFlight
           /\ syncInFlight' = IF syncFires THEN syncInFlight + 1 ELSE syncInFlight
           /\ failureSeen' = IF failureSeen = "failed" /\ (fetchFires \/ syncFires)
                              THEN "firedAgain" ELSE failureSeen
    /\ UNCHANGED <<env, appPc, isRunning, tariffFetchTask, sheetsSyncTask>>

\* A scheduled fetchAndStoreTariffs settles: resolved (ok) or rejected; the
\* callback logs the outcome in its try or in its catch.
FetchTaskDone(ok) ==
    /\ appPc = "running"
    /\ fetchInFlight > 0
    /\ fetchInFlight' = fetchInFlight - 1
    /\ appPc' = IF ok THEN appPc ELSE CallbackCatch(appPc)
    /\ failureSeen' = IF ok \/ failureSeen # "none" THEN failureSeen ELSE "failed"
    /\ UNCHANGED <<env, isRunning, tariffFetchTask, sheetsSyncTask, hour,
                   minute, syncInFlight>>

\* A scheduled syncAllSheets settles: it returned its results (ok) or
\* rejected; the callback logs the outcome in its try or in its catch.
SyncTaskDone(ok) ==
    /\ appPc = "running"
    /\ syncInFlight > 0
    /\ syncInFlight' = syncInFlight - 1
    /\ appPc' = IF ok THEN appPc ELSE CallbackCatch(appPc)
    /\ failureSeen' = IF ok \/ failureSeen # "none" THEN failureSeen ELSE "failed"
    /\ UNCHANGED <<env, isRunning, tariffFetchTask, sheetsSyncTask, hour,
                   minute, fetchInFlight>>

-----------------------------------------------------------------------------
(* scheduler/scheduler.ts: the Scheduler object under start() and stop() *)

SchedIdle ==
    /\ activeFetchTasks = 0
    /\ activeSyncTasks = 0
    /\ startCalls = 0
    /\ lastCall = "none"

\* A Scheduler just constructed, in a process with some environment.
SchedulerConstructed ==
    /\ env \in Environments
    /\ appPc = "boot"
    /\ isRunning = FALSE
    /\ tariffFetchTask = FALSE
    /\ sheetsSyncTask = FALSE
    /\ hour = 0 /\ minute = 0
    /\ fetchInFlight = 0
    /\ syncInFlight = 0
    /\ failureSeen = "none"

\* start(): returns at once when isRunning; otherwise scheduleHourlyTariffFetch
\* validates and assigns a new task to tariffFetchTask, scheduleSheetsSync
\* returns when Sheets is not configured or validates and assigns a new task
\* to sheetsSyncTask, and isRunning is set last. cron.schedule starts the
\* task it returns. An invalid expression throws out of start, past the
\* statements that follow.
Start ==
    /\ startCalls < MaxStartCalls
    /\ startCalls' = startCalls + 1
    /\ IF isRunning
       THEN /\ lastCall' = "start: already running"
            /\ UNCHANGED <<isRunning, tariffFetchTask, sheetsSyncTask,
                           activeFetchTasks, activeSyncTasks>>
       ELSE IF ~cronValidate(FetchExpression(env))
       THEN /\ lastCall' = "start: threw"
            /\ UNCHANGED <<isRunning, tariffFetchTask, sheetsSyncTask,
                           activeFetchTasks, activeSyncTasks>>
       ELSE /\ tariffFetchTask' = TRUE
            /\ activeFetchTasks' = activeFetchTasks + 1
            /\ IF ~SheetsSyncScheduled(env)
               THEN /\ isRunning' = TRUE
                    /\ lastCall' = "start: started"
                    /\ UNCHANGED <<sheetsSyncTask, activeSyncTasks>>
               ELSE IF ~cronValidate(SyncExpression(env))
               THEN /\ lastCall' = "start: threw"
                    /\ UNCHANGED <<isRunning, sheetsSyncTask, activeSyncTasks>>
               ELSE /\ sheetsSyncTask' = TRUE
                    /\ activeSyncTasks' = activeSyncTasks + 1
                    /\ isRunning' = TRUE
                    /\ lastCall' = "start: started"
    /\ UNCHANGED <<env, appPc, hour, minute, fetchInFlight, syncInFlight, failureSeen>>

\* stop(): returns at once when not isRunning; otherwise stops the task each
\* field refers to, clears the field, and clears isRunning.
Stop ==
    /\ IF ~isRunning
       THEN /\ lastCall' = "stop: not running"
            /\ UNCHANGED <<isRunning, tariffFetchTask, sheetsSyncTask,
                           activeFetchTasks, activeSyncTasks>>
       ELSE /\ activeFetchTasks' = IF tariffFetchTask THEN activeFetchTasks - 1
                                   ELSE activeFetchTasks
            /\ tariffFetchTask' = FALSE
            /\ activeSyncTasks' = IF sheetsSyncTask THEN activeSyncTasks - 1
                                  ELSE activeSyncTasks
            /\ sheetsSyncTask' = FALSE
            /\ isRunning' = FALSE
            /\ lastCall' = "stop: stopped"
    /\ UNCHANGED <<env, appPc, hour, minute, fetchInFlight, syncInFlight, failureSeen,
                   startCalls>>

-----------------------------------------------------------------------------
(* The dates of a fetch cycle: wb-api-client.ts and tariff-service.ts *)

\* new Date().toISOString().split("T")[0]: the calendar day in UTC.
toISOStringDay(minutes) == (minutes \div (24 * 60)) + 1

\* new Date() with setHours(0, 0, 0, 0): the calendar day in the time zone
\* of the machine; the driver writes that local day to the date column.
setHoursZeroDay(minutes, offset) == ((minutes + offset) \div (24 * 60)) + 1

\* The moments fetchAndStoreTariffs is called at, on day 2 in UTC: 00:30,
\* 12:00, 21:30, 23:50 and 23:58.
CallMinutes == {24 * 60 + 30, 36 * 60, 45 * 60 + 30, 47 * 60 + 50, 47 * 60 + 58}

\* Time zones of the machine: UTC-8, UTC, UTC+3, UTC+10.
ZoneOffsets == {-8 * 60, 0, 3 * 60, 10 * 60}

DateIdle ==
    /\ dpc = "idle"
    /\ clockMinutes = 36 * 60
    /\ tzOffset = 0
    /\ dateParam = 0
    /\ rowDate = 0
    /\ dAttempt = 0

DateReady ==
    /\ dpc = "idle"
    /\ clockMinutes \in CallMinutes
    /\ tzOffset \in ZoneOffsets
    /\ dateParam = 0
    /\ rowDate = 0
    /\ dAttempt = 0

\* fetchBoxTariffs builds the url, with its date parameter, once, before
\* retryWithCondition runs the first attempt.
DateFetchStart ==
    /\ dpc = "idle"
    /\ dateParam' = toISOStringDay(clockMinutes)
    /\ dpc' = "attempt"
    /\ UNCHANGED <<clockMinutes, tzOffset, rowDate, dAttempt>>

\* An attempt fails with a retryable error: retry sleeps calculateDelay and
\* runs the next attempt with the same url; the last attempt's failure is
\* thrown.
DateAttemptFails ==
    /\ dpc = "attempt"
    /\ IF dAttempt = WBRetryConfig.maxAttempts - 1
       THEN /\ dpc' = "failed"
            /\ UNCHANGED <<clockMinutes, dAttempt>>
       ELSE /\ clockMinutes' = clockMinutes
                                  + calculateDelay(dAttempt, WBRetryConfig) \div (60 * 1000)
            /\ dAttempt' = dAttempt + 1
            /\ dpc' = "attempt"
    /\ UNCHANGED <<tzOffset, dateParam, rowDate>>

\* An attempt returns the list; fetchAndStoreTariffs calls
\* transformBoxTariffs, which reads the clock for the date of the tariffs,
\* and stores them.
DateAttemptSucceeds ==
    /\ dpc = "attempt"
    /\ rowDate' = setHoursZeroDay(clockMinutes, tzOffset)
    /\ dpc' = "stored"
    /\ UNCHANGED <<clockMinutes, tzOffset, dateParam, dAttempt>>

-----------------------------------------------------------------------------
(* wb-api/wb-api-client.ts: fetchBoxTariffs *)

\* Statuses the API answers with, bodies a 2xx answer carries, and the system
\* errors a connection fails with.
Statuses == {200, 401, 403, 404, 429, 503}
Bodies == {"valid", "mismatch", "notJson"}
NetworkCodes == {"ECONNREFUSED", "ENOTFOUND"}

\* response.ok
ResponseOk(status) == status >= 200 /\ status <= 299

\* What the global fetch rejects with when the connection fails: a TypeError
\* whose cause holds the system error; the error itself has no code.
FetchFailed(code) == [status |-> 0, code |-> "", name |-> "TypeError"]

\* What response.json() rejects with on a body that is not JSON.
SyntaxError == [status |-> 0, code |-> "", name |-> "SyntaxError"]

\* What fetch rejects with when the signal aborts it.
AbortError == [status |-> 0, code |-> "", name |-> "AbortError"]

\* The inner catch of the attempt: an AbortError becomes the TimeoutError
\* with code ETIMEDOUT, every other error is rethrown as it is.
Classify(error) ==
    IF error.name = "AbortError" THEN TimeoutError ELSE error

\* parseWBApiResponse: WBApiResponseSchema.parse throws a ZodError on a body
\* that does not match.
parseWBApiResponse(body) == IF body = "valid" THEN NoError ELSE ZodError

FetchIdle ==
    /\ fpc = "none"
    /\ timeoutArmed = FALSE
    /\ responseStatus = 0
    /\ causes = <<>>

\* fetchBoxTariffs hands the attempt to retryWithCondition with its
\* configuration.
FetchBoxTariffsStart ==
    /\ RetryStart(WBRetryConfig, TRUE, "WB API fetchBoxTariffs")
    /\ UNCHANGED fetchVars

\* The attempt starts: the abort timer is set and the request is sent.
AttemptBegin ==
    /\ rpc = "attempt"
    /\ fpc = "none"
    /\ fpc' = "awaitHeaders"
    /\ timeoutArmed' = TRUE
    /\ responseStatus' = 0
    /\ UNCHANGED <<causes, retryVars>>

\* The attempt ends with error e raised for cause c.
AttemptEndsWith(e, c) ==
    /\ AttemptFails(e)
    /\ fpc' = "none"
    /\ timeoutArmed' = FALSE
    /\ causes' = Append(causes, c)
    /\ UNCHANGED responseStatus

\* fetch resolves with the response: clearTimeout, then the body is read,
\* as text for a non-2xx status and as JSON otherwise.
HeadersArrive(status) ==
    /\ fpc = "awaitHeaders"
    /\ timeoutArmed' = FALSE
    /\ responseStatus' = status
    /\ fpc' = IF ResponseOk(status) THEN "awaitBody" ELSE "awaitErrorText"
    /\ UNCHANGED <<causes, retryVars>>

\* The timer fires: controller.abort() makes the pending fetch reject.
TimeoutFires ==
    /\ timeoutArmed
    /\ fpc = "awaitHeaders"
    /\ AttemptEndsWith(Classify(AbortError), [kind |-> "timeout", status |-> 0])

\* The connection fails before the headers or while the body is read.
NetworkFails(code) ==
    /\ fpc \in {"awaitHeaders", "awaitBody", "awaitErrorText"}
    /\ AttemptEndsWith(Classify(FetchFailed(code)), [kind |-> "network", status |-> 0])

\* response.text() resolves for a non-2xx answer: the error carrying
\* response.status is thrown.
ErrorTextArrives ==
    /\ fpc = "awaitErrorText"
    /\ AttemptEndsWith(Classify(HttpError(responseStatus)),
                       [kind |-> "http", status |-> responseStatus])

\* response.json() settles for a 2xx answer: a body that is not JSON or does
\* not match the schema fails the attempt, a valid one is its result.
BodyArrives(body) ==
    /\ fpc = "awaitBody"
    /\ IF body = "notJson"
       THEN AttemptEndsWith(Classify(SyntaxError), [kind |-> "json", status |-> 0])
       ELSE IF parseWBApiResponse(body) # NoError
       THEN AttemptEndsWith(Classify(parseWBApiResponse(body)),
                            [kind |-> "schema", status |-> 0])
       ELSE /\ AttemptSucceeds
            /\ fpc' = "none"
            /\ UNCHANGED <<timeoutArmed, responseStatus, causes>>

\* The backoff sleep of retry ends.
BackoffDone ==
    /\ SleepDone
    /\ UNCHANGED fetchVars

-----------------------------------------------------------------------------
(* app.ts: main with the initial fetch in its steps *)

\* main awaits tariffService.fetchAndStoreTariffs(), which awaits
\* fetchBoxTariffs and its retries.
InitialFetchBegins ==
    /\ appPc = "initialFetch"
    /\ FetchBoxTariffsStart
    /\ UNCHANGED appVars

\* The awaited call has settled, fetchBoxTariffs having returned or thrown
\* after its last attempt (what follows a returned list, the transform and
\* the upsert, resolves or rejects as well): main resumes after the
\* try/catch.
InitialFetchSettles ==
    /\ rpc \in {"returned", "thrown"}
    /\ fpc = "none"
    /\ InitialFetch
    /\ UNCHANGED <<retryVars, fetchVars>>

-----------------------------------------------------------------------------
(* utils/retry.ts: shouldRetry on its own *)

\* Errors by the three fields shouldRetry reads: response.status (0 when the
\* error has no response), code ("" when it has none) and name.
ErrorStatuses == {0, 200, 400, 401, 403, 404, 429, 499, 500, 503}
ErrorCodes == {"", "ECONNREFUSED", "ETIMEDOUT", "ENOTFOUND", "ECONNRESET"}
ErrorNames == {"Error", "TimeoutError", "AbortError", "TypeError", "ZodError"}
AnyErrors == [status : ErrorStatuses, code : ErrorCodes, name : ErrorNames]

PredIdle ==
    /\ srPc = "idle"
    /\ srError = NoError
    /\ srResult = FALSE

PredReady ==
    /\ srPc = "ready"
    /\ srError \in AnyErrors
    /\ srResult = FALSE

\* shouldRetry(error) is called and returns.
ApplyShouldRetry ==
    /\ srPc = "ready"
    /\ srResult' = shouldRetry(srError)
    /\ srPc' = "done"
    /\ UNCHANGED srError

-----------------------------------------------------------------------------
(* tariff-repository.ts: getLatestDailyTariffs and getTariffsByDate *)

\* Rows the table may hold when a query runs: day 1 stored in the order
\* 3.00, 1.10, 2.50, and two rows of day 2 with equal coefficients.
QueryPool ==
    {NewRow(RowOf(Tariff(1, "Koledino", Milli(3000), "rawA"), 1), 1, 1),
     NewRow(RowOf(Tariff(1, "Podolsk", Milli(1100), "rawB"), 1), 2, 1),
     NewRow(RowOf(Tariff(1, "Kazan", Milli(2500), "rawC"), 1), 3, 1),
     NewRow(RowOf(Tariff(2, "Koledino", Milli(1100), "rawD"), 2), 4, 2),
     NewRow(RowOf(Tariff(2, "Podolsk", Milli(1100), "rawE"), 2), 5, 2)}

QueryStores == SUBSET QueryPool

\* The dates getTariffsByDate is asked for.
QueryDates == 1..(MaxDay + 1)

QueryIdle ==
    /\ qpc = "idle"
    /\ qKind = "latest"
    /\ qDate = 0
    /\ qResult = <<>>

\* The table as earlier fetch cycles left it.
QueryStoreReady ==
    /\ store \in QueryStores
    /\ nextId = Cardinality(QueryPool) + 1
    /\ dbClock = 2
    /\ alive = TRUE
    /\ tx = [p \in Procs |-> NoCall]

\* getLatestDailyTariffs() is called and issues the max(date) query.
GetLatestDailyTariffs ==
    /\ qpc = "idle"
    /\ qpc' = "maxDate"
    /\ qKind' = "latest"
    /\ UNCHANGED <<qDate, qResult>>

\* getTariffsByDate(date) is called and issues its only query.
GetTariffsByDate(date) ==
    /\ qpc = "idle"
    /\ qpc' = "rows"
    /\ qKind' = "byDate"
    /\ qDate' = date
    /\ UNCHANGED qResult

\* The max(date) query answers: no maxDate returns [], otherwise latestDate
\* is kept and the rows query is issued.
QueryMaxDate ==
    /\ qpc = "maxDate"
    /\ LET maxDate == MaxDate(store)
       IN  IF maxDate = 0
           THEN qpc' = "returned" /\ qResult' = <<>> /\ UNCHANGED qDate
           ELSE qpc' = "rows" /\ qDate' = maxDate /\ UNCHANGED qResult
    /\ UNCHANGED qKind

\* The rows query answers and the rows are mapped to ProcessedTariff.
QueryRows ==
    /\ qpc = "rows"
    /\ \E rows \in RowsByCoefficient(store, qDate) :
          qResult' = [k \in 1..Len(rows) |-> mapRowToTariff(rows[k])]
    /\ qpc' = "returned"
    /\ UNCHANGED <<qKind, qDate>>

\* A query fails: the error is logged and rethrown.
QueryFails ==
    /\ qpc \in {"maxDate", "rows"}
    /\ qpc' = "thrown"
    /\ UNCHANGED <<qKind, qDate, qResult>>

-----------------------------------------------------------------------------
(* tariff-service.ts: fetchAndStoreTariffs, one cycle after another *)

\* A raw entry with the given fields; the other cost fields are absent.
RawEntry(warehouseName, expr, deliveryBase) ==
    [warehouseName |-> warehouseName,
     boxTypeName |-> "",
     boxDeliveryAndStorageExpr |-> expr,
     boxDeliveryBase |-> deliveryBase,
     boxDeliveryLiter |-> Undefined,
     boxStorageBase |-> Undefined,
     boxStorageLiter |-> Undefined]

\* The lists fetchBoxTariffs returns in a cycle: empty, an entry with only a
\* name and boxDeliveryBase, another value for the same key, entries with an
\* expression, and a list whose only entry is skipped.
CycleRawLists ==
    {<<>>,
     <<RawEntry("Koledino", Undefined, <<"1", ".", "2", "5">>)>>,
     <<RawEntry("Koledino", Undefined, <<"2", ",", "3", "0">>),
       RawEntry("Podolsk", <<"-", "1", ".", "5">>, Undefined)>>,
     <<RawEntry("Podolsk", <<"x", "1", ".", "5">>, Undefined),
       RawEntry("Koledino", Undefined, <<"0">>)>>,
     <<RawEntry("Koledino", Undefined, Undefined)>>}

\* The messages of the errors fetchBoxTariffs fails with after its retries.
FetchErrorMessages ==
    {"WB API request failed with status 401", "Request timeout after 30000ms"}

\* What the catch of fetchAndStoreTariffs does with an error: log it and
\* rethrow it.
RethrowSwallowed(failedAt, message) == [pc |-> "done", failedAt |-> "", error |-> ""]

Rethrow(failedAt, message) == [pc |-> "failed", failedAt |-> failedAt, error |-> message]

CycleIdle ==
    /\ cpc = "idle"
    /\ clockDay = 1
    /\ cyclesStarted = 0
    /\ cycleFailures = 0
    /\ storeBefore = {}
    /\ cycleError = ""
    /\ cycleFailedAt = ""

CycleReady ==
    /\ cpc = "idle"
    /\ clockDay = 1
    /\ cyclesStarted = 0
    /\ cycleFailures = 0
    /\ storeBefore = store
    /\ cycleError = ""
    /\ cycleFailedAt = ""

\* Midnight passes.
DayRolls ==
    /\ clockDay < MaxDay
    /\ clockDay' = clockDay + 1
    /\ UNCHANGED <<cpc, cyclesStarted, cycleFailures, storeBefore, cycleError, cycleFailedAt>>

\* fetchAndStoreTariffs is called (by main or by the task callback of the
\* scheduler) and awaits fetchBoxTariffs.
CycleStart ==
    /\ cpc \in {"idle", "done", "failed"}
    /\ cyclesStarted < MaxCycles
    /\ cpc' = "fetching"
    /\ cyclesStarted' = cyclesStarted + 1
    /\ storeBefore' = store
    /\ cycleError' = ""
    /\ cycleFailedAt' = ""
    /\ npc' = "idle"
    /\ boxTariffs' = <<>>
    /\ processedTariffs' = <<>>
    /\ tx' = [tx EXCEPT !["call1"] = NoCall]
    /\ UNCHANGED <<clockDay, cycleFailures, today, store, nextId, dbClock, alive>>

\* fetchBoxTariffs returns list: an empty list ends the cycle; otherwise the
\* list is transformed with today's date and upsertDailyTariffs is called,
\* which returns 0 for no tariffs and opens its transaction otherwise.
CycleFetchReturns(list) ==
    /\ cpc = "fetching"
    /\ boxTariffs' = list
    /\ IF Len(list) = 0
       THEN /\ cpc' = "done"
            /\ UNCHANGED <<npc, today, processedTariffs, storeVars>>
       ELSE /\ today' = clockDay
            /\ processedTariffs' = transformBoxTariffs(list, clockDay)
            /\ npc' = "done"
            /\ BeginUpsert("call1", transformBoxTariffs(list, clockDay))
            /\ cpc' = IF Len(transformBoxTariffs(list, clockDay)) = 0
                      THEN "done" ELSE "upsert"
    /\ UNCHANGED <<clockDay, cyclesStarted, cycleFailures, storeBefore, cycleError,
                   cycleFailedAt>>

\* fetchBoxTariffs rejects: the catch logs and rethrows.
CycleFetchThrows(message) ==
    /\ cpc = "fetching"
    /\ cpc' = Rethrow("fetch", message).pc
    /\ cycleFailedAt' = Rethrow("fetch", message).failedAt
    /\ cycleError' = Rethrow("fetch", message).error
    /\ cycleFailures' = cycleFailures + 1
    /\ UNCHANGED <<clockDay, cyclesStarted, storeBefore, normVars, storeVars>>

\* The next statement of the transaction of the cycle.
CycleUpsertRow ==
    /\ cpc = "upsert"
    /\ UpsertRow("call1")
    /\ UNCHANGED <<cycleVars, normVars>>

\* The transaction commits, upsertDailyTariffs returns and the cycle logs
\* its success.
CycleUpsertCommits ==
    /\ cpc = "upsert"
    /\ CommitUpsert("call1")
    /\ cpc' = "done"
    /\ UNCHANGED <<clockDay, cyclesStarted, cycleFailures, storeBefore, cycleError,
                   cycleFailedAt, normVars>>

\* The transaction fails and is rolled back; upsertDailyTariffs rethrows and
\* so does the catch of the cycle.
CycleUpsertThrows ==
    /\ cpc = "upsert"
    /\ UpsertFails("call1")
    /\ cpc' = Rethrow("upsert", "query failed").pc
    /\ cycleFailedAt' = Rethrow("upsert", "query failed").failedAt
    /\ cycleError' = Rethrow("upsert", "query failed").error
    /\ cycleFailures' = cycleFailures + 1
    /\ UNCHANGED <<clockDay, cyclesStarted, storeBefore, normVars>>

-----------------------------------------------------------------------------
(* A sync beside the fetch cycles: scheduler.ts runs both tasks in one process *)

\* The lists the cycles of a run with a sync receive.
PipelineRawLists ==
    {<<RawEntry("Koledino", Undefined, <<"1", ".", "2", "5">>)>>,
     <<RawEntry("Koledino", Undefined, <<"2", ",", "3", "0">>),
       RawEntry("Podolsk", <<"-", "1", ".", "5">>, Undefined)>>}

\* One configured spreadsheet, its sheet empty.
PipelineSyncReady ==
    /\ spreadsheetIds = <<"s1">>
    /\ sheet = [id \in SheetIds |-> <<>>]
    /\ syncPc = "idle"
    /\ sync = [t \in Targets |-> NoSync]
    /\ syncResults = <<>>

-----------------------------------------------------------------------------
(* Specifications *)

InitScheduler ==
    RetryIdle /\ NormIdle /\ StoreIdle /\ SyncIdle /\ SchedulerConstructed /\ FetchIdle /\ PredIdle /\ QueryIdle /\ CycleIdle /\ SchedIdle /\ DateIdle

NextScheduler ==
    \/ Start /\ UNCHANGED <<retryVars, normVars, storeVars, syncVars, fetchVars, predVars, queryVars, cycleVars, dateVars>>
    \/ Stop /\ UNCHANGED <<retryVars, normVars, storeVars, syncVars, fetchVars, predVars, queryVars, cycleVars, dateVars>>

SpecScheduler == InitScheduler /\ [][NextScheduler]_vars

InitDates ==
    RetryIdle /\ NormIdle /\ StoreIdle /\ SyncIdle /\ AppIdle /\ FetchIdle /\ PredIdle /\ QueryIdle /\ CycleIdle /\ SchedIdle /\ DateReady

NextDates ==
    \/ DateFetchStart /\ UNCHANGED <<retryVars, normVars, storeVars, syncVars, appVars, fetchVars, predVars, queryVars, cycleVars, schedVars>>
    \/ DateAttemptFails /\ UNCHANGED <<retryVars, normVars, storeVars, syncVars, appVars, fetchVars, predVars, queryVars, cycleVars, schedVars>>
    \/ DateAttemptSucceeds /\ UNCHANGED <<retryVars, normVars, storeVars, syncVars, appVars, fetchVars, predVars, queryVars, cycleVars, schedVars>>

SpecDates == InitDates /\ [][NextDates]_vars

InitStartup ==
    RetryIdle /\ NormIdle /\ StoreIdle /\ SyncIdle /\ SchedulerConstructed /\ FetchIdle /\ PredIdle /\ QueryIdle /\ CycleIdle /\ SchedIdle /\ DateIdle

NextStartup ==
    \/ ImportModules /\ UNCHANGED <<retryVars, normVars, storeVars, syncVars, fetchVars, predVars, queryVars, cycleVars, schedVars, dateVars>>
    \/ (\E ok \in BOOLEAN : MigrateAndSeed(ok))
          /\ UNCHANGED <<retryVars, normVars, storeVars, syncVars, fetchVars, predVars, queryVars, cycleVars, schedVars, dateVars>>
    \/ InitialFetchBegins /\ UNCHANGED <<normVars, storeVars, syncVars, predVars, queryVars, cycleVars, schedVars, dateVars>>
    \/ AttemptBegin /\ UNCHANGED <<normVars, storeVars, syncVars, appVars, predVars, queryVars, cycleVars, schedVars, dateVars>>
    \/ (\E status \in Statuses : HeadersArrive(status))
          /\ UNCHANGED <<normVars, storeVars, syncVars, appVars, predVars, queryVars, cycleVars, schedVars, dateVars>>
    \/ TimeoutFires /\ UNCHANGED <<normVars, storeVars, syncVars, appVars, predVars, queryVars, cycleVars, schedVars, dateVars>>
    \/ (\E code \in NetworkCodes : NetworkFails(code))
          /\ UNCHANGED <<normVars, storeVars, syncVars, appVars, predVars, queryVars, cycleVars, schedVars, dateVars>>
    \/ ErrorTextArrives /\ UNCHANGED <<normVars, storeVars, syncVars, appVars, predVars, queryVars, cycleVars, schedVars, dateVars>>
    \/ (\E body \in Bodies : BodyArrives(body))
          /\ UNCHANGED <<normVars, storeVars, syncVars, appVars, predVars, queryVars, cycleVars, schedVars, dateVars>>
    \/ BackoffDone /\ UNCHANGED <<normVars, storeVars, syncVars, appVars, predVars, queryVars, cycleVars, schedVars, dateVars>>
    \/ InitialFetchSettles /\ UNCHANGED <<normVars, storeVars, syncVars, predVars, queryVars, cycleVars, schedVars, dateVars>>
    \/ SchedulerStart /\ UNCHANGED <<retryVars, normVars, storeVars, syncVars, fetchVars, predVars, queryVars, cycleVars, schedVars, dateVars>>

SpecStartup == InitStartup /\ [][NextStartup]_vars

\* main runs on as soon as the awaited call has settled: the continuation
\* after the try/catch and scheduler.start() are synchronous code of main.
SpecStartupFair ==
    /\ SpecStartup
    /\ WF_vars(InitialFetchSettles /\ UNCHANGED <<normVars, storeVars, syncVars, predVars, queryVars, cycleVars, schedVars, dateVars>>)
    /\ WF_vars(SchedulerStart /\ UNCHANGED <<retryVars, normVars, storeVars, syncVars, fetchVars, predVars, queryVars, cycleVars, schedVars, dateVars>>)

InitRetry == RetryIdle /\ NormIdle /\ StoreIdle /\ SyncIdle /\ AppIdle /\ FetchIdle /\ PredIdle /\ QueryIdle /\ CycleIdle /\ SchedIdle /\ DateIdle

NextRetry ==
    \/ (\E config \in RetryConfigs, cond \in BOOLEAN, operationName \in OperationNames :
            RetryStart(config, cond, operationName))
          /\ UNCHANGED <<normVars, storeVars, syncVars, appVars, fetchVars, predVars, queryVars, cycleVars, schedVars, dateVars>>
    \/ AttemptSucceeds /\ UNCHANGED <<normVars, storeVars, syncVars, appVars, fetchVars, predVars, queryVars, cycleVars, schedVars, dateVars>>
    \/ (\E e \in Errors : AttemptFails(e)) /\ UNCHANGED <<normVars, storeVars, syncVars, appVars, fetchVars, predVars, queryVars, cycleVars, schedVars, dateVars>>
    \/ SleepDone /\ UNCHANGED <<normVars, storeVars, syncVars, appVars, fetchVars, predVars, queryVars, cycleVars, schedVars, dateVars>>

SpecRetry == InitRetry /\ [][NextRetry]_vars

InitNorm == RetryIdle /\ NormReady /\ StoreIdle /\ SyncIdle /\ AppIdle /\ FetchIdle /\ PredIdle /\ QueryIdle /\ CycleIdle /\ SchedIdle /\ DateIdle

NextNorm ==
    \/ Transform /\ UNCHANGED <<retryVars, storeVars, syncVars, appVars, fetchVars, predVars, queryVars, cycleVars, schedVars, dateVars>>
    \/ (\E day \in Days : TransformAgain(day))
          /\ UNCHANGED <<retryVars, storeVars, syncVars, appVars, fetchVars, predVars, queryVars, cycleVars, schedVars, dateVars>>

SpecNorm == InitNorm /\ [][NextNorm]_vars

InitStore == RetryIdle /\ NormIdle /\ StoreIdle /\ SyncIdle /\ AppIdle /\ FetchIdle /\ PredIdle /\ QueryIdle /\ CycleIdle /\ SchedIdle /\ DateIdle

NextStore ==
    \/ (\E p \in Procs, batch \in Batches : BeginUpsert(p, batch))
          /\ UNCHANGED <<retryVars, normVars, syncVars, appVars, fetchVars, predVars, queryVars, cycleVars, schedVars, dateVars>>
    \/ (\E p \in Procs : UpsertRow(p)) /\ UNCHANGED <<retryVars, normVars, syncVars, appVars, fetchVars, predVars, queryVars, cycleVars, schedVars, dateVars>>
    \/ (\E p \in Procs : CommitUpsert(p)) /\ UNCHANGED <<retryVars, normVars, syncVars, appVars, fetchVars, predVars, queryVars, cycleVars, schedVars, dateVars>>
    \/ (\E p \in Procs : UpsertFails(p)) /\ UNCHANGED <<retryVars, normVars, syncVars, appVars, fetchVars, predVars, queryVars, cycleVars, schedVars, dateVars>>
    \/ (\E p \in Procs : DeadlockDetected(p))
          /\ UNCHANGED <<retryVars, normVars, syncVars, appVars, fetchVars, predVars, queryVars, cycleVars, schedVars, dateVars>>
    \/ Shutdown /\ UNCHANGED <<retryVars, normVars, syncVars, appVars, fetchVars, predVars, queryVars, cycleVars, schedVars, dateVars>>

SpecStore == InitStore /\ [][NextStore]_vars

InitSync == RetryIdle /\ NormIdle /\ StoreReady /\ SyncReady /\ AppIdle /\ FetchIdle /\ PredIdle /\ QueryIdle /\ CycleIdle /\ SchedIdle /\ DateIdle

NextSync ==
    \/ SyncAllStart /\ UNCHANGED <<retryVars, normVars, storeVars, appVars, fetchVars, predVars, queryVars, cycleVars, schedVars, dateVars>>
    \/ (\E t \in Targets : ReadLatestDate(t)) /\ UNCHANGED <<retryVars, normVars, storeVars, appVars, fetchVars, predVars, queryVars, cycleVars, schedVars, dateVars>>
    \/ (\E t \in Targets : ReadRows(t)) /\ UNCHANGED <<retryVars, normVars, storeVars, appVars, fetchVars, predVars, queryVars, cycleVars, schedVars, dateVars>>
    \/ (\E t \in Targets : ReadFails(t)) /\ UNCHANGED <<retryVars, normVars, storeVars, appVars, fetchVars, predVars, queryVars, cycleVars, schedVars, dateVars>>
    \/ (\E t \in Targets : ClearSheetOk(t)) /\ UNCHANGED <<retryVars, normVars, storeVars, appVars, fetchVars, predVars, queryVars, cycleVars, schedVars, dateVars>>
    \/ (\E t \in Targets : UpdateSheetOk(t)) /\ UNCHANGED <<retryVars, normVars, storeVars, appVars, fetchVars, predVars, queryVars, cycleVars, schedVars, dateVars>>
    \/ (\E t \in Targets : SinkFails(t)) /\ UNCHANGED <<retryVars, normVars, storeVars, appVars, fetchVars, predVars, queryVars, cycleVars, schedVars, dateVars>>
    \/ SyncAllReturn /\ UNCHANGED <<retryVars, normVars, storeVars, appVars, fetchVars, predVars, queryVars, cycleVars, schedVars, dateVars>>
    \/ (\E batch \in SyncBatches : BeginUpsert("call1", batch))
          /\ UNCHANGED <<retryVars, normVars, syncVars, appVars, fetchVars, predVars, queryVars, cycleVars, schedVars, dateVars>>
    \/ UpsertRow("call1") /\ UNCHANGED <<retryVars, normVars, syncVars, appVars, fetchVars, predVars, queryVars, cycleVars, schedVars, dateVars>>
    \/ CommitUpsert("call1") /\ UNCHANGED <<retryVars, normVars, syncVars, appVars, fetchVars, predVars, queryVars, cycleVars, schedVars, dateVars>>

SpecSync == InitSync /\ [][NextSync]_vars

\* The event loop resumes syncAllSheets once every promise has settled, and
\* the database answers each query. Nothing obliges a spreadsheet to answer
\* a clear or an update request, and neither sheets-client.ts nor
\* sheets-sync.ts sets a timeout on them.
SpecSyncFair ==
    /\ SpecSync
    /\ WF_vars(SyncAllReturn /\ UNCHANGED <<retryVars, normVars, storeVars, appVars, fetchVars, predVars, queryVars, cycleVars, schedVars, dateVars>>)
    /\ WF_vars((\E t \in Targets : ReadLatestDate(t))
                  /\ UNCHANGED <<retryVars, normVars, storeVars, appVars, fetchVars, predVars, queryVars, cycleVars, schedVars, dateVars>>)
    /\ WF_vars((\E t \in Targets : ReadRows(t))
                  /\ UNCHANGED <<retryVars, normVars, storeVars, appVars, fetchVars, predVars, queryVars, cycleVars, schedVars, dateVars>>)

InitApp == RetryIdle /\ NormIdle /\ StoreIdle /\ SyncIdle /\ AppReady /\ FetchIdle /\ PredIdle /\ QueryIdle /\ CycleIdle /\ SchedIdle /\ DateIdle

NextApp ==
    \/ ImportModules /\ UNCHANGED <<retryVars, normVars, storeVars, syncVars, fetchVars, predVars, queryVars, cycleVars, schedVars, dateVars>>
    \/ (\E ok \in BOOLEAN : MigrateAndSeed(ok))
          /\ UNCHANGED <<retryVars, normVars, storeVars, syncVars, fetchVars, predVars, queryVars, cycleVars, schedVars, dateVars>>
    \/ InitialFetch /\ UNCHANGED <<retryVars, normVars, storeVars, syncVars, fetchVars, predVars, queryVars, cycleVars, schedVars, dateVars>>
    \/ SchedulerStart /\ UNCHANGED <<retryVars, normVars, storeVars, syncVars, fetchVars, predVars, queryVars, cycleVars, schedVars, dateVars>>
    \/ Tick /\ UNCHANGED <<retryVars, normVars, storeVars, syncVars, fetchVars, predVars, queryVars, cycleVars, schedVars, dateVars>>
    \/ (\E ok \in BOOLEAN : FetchTaskDone(ok)) /\ UNCHANGED <<retryVars, normVars, storeVars, syncVars, fetchVars, predVars, queryVars, cycleVars, schedVars, dateVars>>
    \/ (\E ok \in BOOLEAN : SyncTaskDone(ok)) /\ UNCHANGED <<retryVars, normVars, storeVars, syncVars, fetchVars, predVars, queryVars, cycleVars, schedVars, dateVars>>

SpecApp == InitApp /\ [][NextApp]_vars

InitFetch == RetryIdle /\ NormIdle /\ StoreIdle /\ SyncIdle /\ AppIdle /\ FetchIdle /\ PredIdle /\ QueryIdle /\ CycleIdle /\ SchedIdle /\ DateIdle

NextFetch ==
    \/ FetchBoxTariffsStart /\ UNCHANGED <<normVars, storeVars, syncVars, appVars, predVars, queryVars, cycleVars, schedVars, dateVars>>
    \/ AttemptBegin /\ UNCHANGED <<normVars, storeVars, syncVars, appVars, predVars, queryVars, cycleVars, schedVars, dateVars>>
    \/ (\E status \in Statuses : HeadersArrive(status))
          /\ UNCHANGED <<normVars, storeVars, syncVars, appVars, predVars, queryVars, cycleVars, schedVars, dateVars>>
    \/ TimeoutFires /\ UNCHANGED <<normVars, storeVars, syncVars, appVars, predVars, queryVars, cycleVars, schedVars, dateVars>>
    \/ (\E code \in NetworkCodes : NetworkFails(code))
          /\ UNCHANGED <<normVars, storeVars, syncVars, appVars, predVars, queryVars, cycleVars, schedVars, dateVars>>
    \/ ErrorTextArrives /\ UNCHANGED <<normVars, storeVars, syncVars, appVars, predVars, queryVars, cycleVars, schedVars, dateVars>>
    \/ (\E body \in Bodies : BodyArrives(body))
          /\ UNCHANGED <<normVars, storeVars, syncVars, appVars, predVars, queryVars, cycleVars, schedVars, dateVars>>
    \/ BackoffDone /\ UNCHANGED <<normVars, storeVars, syncVars, appVars, predVars, queryVars, cycleVars, schedVars, dateVars>>

InitPred ==
    RetryIdle /\ NormIdle /\ StoreIdle /\ SyncIdle /\ AppIdle /\ FetchIdle /\ PredReady /\ QueryIdle /\ CycleIdle /\ SchedIdle /\ DateIdle

NextPred ==
    \/ ApplyShouldRetry
          /\ UNCHANGED <<retryVars, normVars, storeVars, syncVars, appVars, fetchVars, queryVars, cycleVars, schedVars, dateVars>>

SpecPred == InitPred /\ [][NextPred]_vars

SpecFetch == InitFetch /\ [][NextFetch]_vars

\* The event loop runs what is ready: the timer callback once the timeout has
\* elapsed, the next attempt once the backoff has elapsed. Nothing obliges
\* the remote side to send headers or a body.
SpecFetchFair ==
    /\ SpecFetch
    /\ WF_vars(TimeoutFires /\ UNCHANGED <<normVars, storeVars, syncVars, appVars, predVars, queryVars, cycleVars, schedVars, dateVars>>)
    /\ WF_vars(AttemptBegin /\ UNCHANGED <<normVars, storeVars, syncVars, appVars, predVars, queryVars, cycleVars, schedVars, dateVars>>)
    /\ WF_vars(BackoffDone /\ UNCHANGED <<normVars, storeVars, syncVars, appVars, predVars, queryVars, cycleVars, schedVars, dateVars>>)

InitQuery ==
    RetryIdle /\ NormIdle /\ QueryStoreReady /\ SyncIdle /\ AppIdle /\ FetchIdle /\ PredIdle /\ QueryIdle /\ CycleIdle /\ SchedIdle /\ DateIdle

\* A query call, with one fetch cycle storing its batch at any point of it.
NextQuery ==
    \/ GetLatestDailyTariffs
          /\ UNCHANGED <<retryVars, normVars, storeVars, syncVars, appVars, fetchVars, predVars, cycleVars, schedVars, dateVars>>
    \/ (\E date \in QueryDates : GetTariffsByDate(date))
          /\ UNCHANGED <<retryVars, normVars, storeVars, syncVars, appVars, fetchVars, predVars, cycleVars, schedVars, dateVars>>
    \/ QueryMaxDate
          /\ UNCHANGED <<retryVars, normVars, storeVars, syncVars, appVars, fetchVars, predVars, cycleVars, schedVars, dateVars>>
    \/ QueryRows
          /\ UNCHANGED <<retryVars, normVars, storeVars, syncVars, appVars, fetchVars, predVars, cycleVars, schedVars, dateVars>>
    \/ QueryFails
          /\ UNCHANGED <<retryVars, normVars, storeVars, syncVars, appVars, fetchVars, predVars, cycleVars, schedVars, dateVars>>
    \/ (\E batch \in SyncBatches : BeginUpsert("call1", batch))
          /\ UNCHANGED <<retryVars, normVars, syncVars, appVars, fetchVars, predVars, queryVars, cycleVars, schedVars, dateVars>>
    \/ UpsertRow("call1")
          /\ UNCHANGED <<retryVars, normVars, syncVars, appVars, fetchVars, predVars, queryVars, cycleVars, schedVars, dateVars>>
    \/ CommitUpsert("call1")
          /\ UNCHANGED <<retryVars, normVars, syncVars, appVars, fetchVars, predVars, queryVars, cycleVars, schedVars, dateVars>>

SpecQuery == InitQuery /\ [][NextQuery]_vars

InitCycle ==
    RetryIdle /\ NormIdle /\ StoreReady /\ SyncIdle /\ AppIdle /\ FetchIdle /\ PredIdle /\ QueryIdle /\ CycleReady /\ SchedIdle /\ DateIdle

NextCycle ==
    \/ DayRolls
          /\ UNCHANGED <<retryVars, normVars, storeVars, syncVars, appVars, fetchVars, predVars, queryVars, schedVars, dateVars>>
    \/ CycleStart
          /\ UNCHANGED <<retryVars, syncVars, appVars, fetchVars, predVars, queryVars, schedVars, dateVars>>
    \/ (\E list \in CycleRawLists : CycleFetchReturns(list))
          /\ UNCHANGED <<retryVars, syncVars, appVars, fetchVars, predVars, queryVars, schedVars, dateVars>>
    \/ (\E message \in FetchErrorMessages : CycleFetchThrows(message))
          /\ UNCHANGED <<retryVars, syncVars, appVars, fetchVars, predVars, queryVars, schedVars, dateVars>>
    \/ CycleUpsertRow
          /\ UNCHANGED <<retryVars, syncVars, appVars, fetchVars, predVars, queryVars, schedVars, dateVars>>
    \/ CycleUpsertCommits
          /\ UNCHANGED <<retryVars, syncVars, appVars, fetchVars, predVars, queryVars, schedVars, dateVars>>
    \/ CycleUpsertThrows
          /\ UNCHANGED <<retryVars, syncVars, appVars, fetchVars, predVars, queryVars, schedVars, dateVars>>

SpecCycle == InitCycle /\ [][NextCycle]_vars

InitPipeline ==
    RetryIdle /\ NormIdle /\ StoreIdle /\ PipelineSyncReady /\ AppIdle /\ FetchIdle /\ PredIdle /\ QueryIdle /\ CycleIdle /\ SchedIdle /\ DateIdle

\* Fetch cycles over several days and one syncAllSheets at any point.
NextPipeline ==
    \/ DayRolls
          /\ UNCHANGED <<retryVars, normVars, storeVars, syncVars, appVars, fetchVars, predVars, queryVars, schedVars, dateVars>>
    \/ CycleStart
          /\ UNCHANGED <<retryVars, syncVars, appVars, fetchVars, predVars, queryVars, schedVars, dateVars>>
    \/ (\E list \in PipelineRawLists : CycleFetchReturns(list))
          /\ UNCHANGED <<retryVars, syncVars, appVars, fetchVars, predVars, queryVars, schedVars, dateVars>>
    \/ CycleUpsertRow
          /\ UNCHANGED <<retryVars, syncVars, appVars, fetchVars, predVars, queryVars, schedVars, dateVars>>
    \/ CycleUpsertCommits
          /\ UNCHANGED <<retryVars, syncVars, appVars, fetchVars, predVars, queryVars, schedVars, dateVars>>
    \/ SyncAllStart
          /\ UNCHANGED <<retryVars, normVars, storeVars, appVars, fetchVars, predVars, queryVars, cycleVars, schedVars, dateVars>>
    \/ (\E t \in Targets : ReadLatestDate(t))
          /\ UNCHANGED <<retryVars, normVars, storeVars, appVars, fetchVars, predVars, queryVars, cycleVars, schedVars, dateVars>>
    \/ (\E t \in Targets : ReadRows(t))
          /\ UNCHANGED <<retryVars, normVars, storeVars, appVars, fetchVars, predVars, queryVars, cycleVars, schedVars, dateVars>>
    \/ (\E t \in Targets : ClearSheetOk(t))
          /\ UNCHANGED <<retryVars, normVars, storeVars, appVars, fetchVars, predVars, queryVars, cycleVars, schedVars, dateVars>>
    \/ (\E t \in Targets : UpdateSheetOk(t))
          /\ UNCHANGED <<retryVars, normVars, storeVars, appVars, fetchVars, predVars, queryVars, cycleVars, schedVars, dateVars>>
    \/ SyncAllReturn
          /\ UNCHANGED <<retryVars, normVars, storeVars, appVars, fetchVars, predVars, queryVars, cycleVars, schedVars, dateVars>>

SpecPipeline == InitPipeline /\ [][NextPipeline]_vars

-----------------------------------------------------------------------------
(* Claims about the retrier *)

\* C1: when an attempt of the operation wrapped by retryWithCondition fails
\* with an error for which shouldRetry is false, the call fails with that
\* error immediately: the operation is not invoked again and no backoff wait
\* is performed.
C1_NonRetryableFailsImmediately ==
    \A i \in 1..Len(errs) :
        (viaCondition /\ ~shouldRetry(errs[i])) =>
            /\ rpc = "thrown"
            /\ thrown = errs[i]
            /\ calls = i
            /\ Len(waits) = i - 1

\* C5: for every configuration with maxAttempts >= 1 and every sequence of
\* outcomes, retry invokes the operation at most maxAttempts times, and
\* exactly maxAttempts times when every attempt fails.
C5_AtMostMaxAttempts ==
    (rpc # "idle" /\ rconfig.maxAttempts >= 1) =>
        /\ calls <= rconfig.maxAttempts
        /\ (rpc = "thrown" => calls = rconfig.maxAttempts /\ Len(errs) = calls)

C5_Witness ==
    /\ rpc = "thrown"
    /\ rconfig.maxAttempts = MaxAttempts
    /\ calls = MaxAttempts
    /\ Len(errs) = MaxAttempts

\* C6: the wait between failed attempt i (0-based) and attempt i+1 equals
\* min(initialDelay * backoffMultiplier^i, maxDelay); with the Source Client's
\* configuration the waits are exactly 5 minutes, then 10 minutes.
C6_BackoffDelays ==
    /\ \A i \in 1..Len(waits) :
          LET d == rconfig.initialDelay * Pow(rconfig.backoffMultiplier, i - 1)
          IN  waits[i] = IF d < rconfig.maxDelay THEN d ELSE rconfig.maxDelay
    /\ (rconfig = WBRetryConfig /\ rpc = "thrown") => waits = <<300000, 600000>>
    /\ Len(waits) = Len(errs) - (IF rpc = "thrown" THEN 1 ELSE 0)

C6_Witness ==
    /\ rconfig = WBRetryConfig
    /\ rpc = "thrown"
    /\ waits = <<300000, 600000>>

-----------------------------------------------------------------------------
(* Claims about the normalizer *)

\* What a field yields under the claimed rule: its number when it is present
\* and parses to a positive number, else nothing (0). An expression that does
\* not parse stands for 1.0, the documented default.
C7_ExprYield(f) ==
    LET n == parseFloat(Trim(StripMarkers(f)))
    IN  IF ~Truthy(f) THEN 0
        ELSE IF isNaN(n) THEN Dec(1, 0)
        ELSE IF n.v > 0 THEN n.v ELSE 0

C7_FieldYield(f) ==
    LET n == parseFloat(ReplaceFirstComma(f))
    IN  IF Truthy(f) /\ ~isNaN(n) /\ n.v > 0 THEN n.v ELSE 0

C7_ClaimedCoefficient(e) ==
    IF C7_ExprYield(e.boxDeliveryAndStorageExpr) > 0
        THEN C7_ExprYield(e.boxDeliveryAndStorageExpr)
    ELSE IF C7_FieldYield(e.boxDeliveryBase) > 0 THEN C7_FieldYield(e.boxDeliveryBase)
    ELSE IF C7_FieldYield(e.boxDeliveryLiter) > 0 THEN C7_FieldYield(e.boxDeliveryLiter)
    ELSE IF C7_FieldYield(e.boxStorageBase) > 0 THEN C7_FieldYield(e.boxStorageBase)
    ELSE IF C7_FieldYield(e.boxStorageLiter) > 0 THEN C7_FieldYield(e.boxStorageLiter)
    ELSE 0

RECURSIVE C7_ClaimedCoefficients(_)
C7_ClaimedCoefficients(list) ==
    IF list = <<>> THEN <<>>
    ELSE (IF C7_ClaimedCoefficient(Head(list)) > 0
          THEN <<C7_ClaimedCoefficient(Head(list))>> ELSE <<>>)
         \o C7_ClaimedCoefficients(Tail(list))

\* C7: normalize derives the coefficient of every raw entry from the first
\* field, in the order boxDeliveryAndStorageExpr, boxDeliveryBase,
\* boxDeliveryLiter, boxStorageBase, boxStorageLiter, that yields a positive
\* number; an absent, non-numeric or non-positive field is skipped in favour
\* of the next one, also when it is the expression field.
C7_CoefficientPrecedence ==
    npc = "done" =>
        [i \in 1..Len(processedTariffs) |-> processedTariffs[i].coefficient]
            = C7_ClaimedCoefficients(boxTariffs)

\* C8: every ProcessedTariff produced by normalize has a coefficient strictly
\* greater than 0, and a raw entry is dropped exactly when none of its five
\* fields yields a positive number.
C8_PositiveCoefficients ==
    npc = "done" =>
        /\ \A i \in 1..Len(processedTariffs) : processedTariffs[i].coefficient > 0
        /\ Len(processedTariffs) = Len(C7_ClaimedCoefficients(boxTariffs))

-----------------------------------------------------------------------------
(* Claims about the tariff store *)

C2_SameKey(r1, r2) ==
    /\ r1.date = r2.date
    /\ r1.warehouse_name = r2.warehouse_name
    /\ r1.box_type = r2.box_type
    /\ r1.delivery_type = r2.delivery_type

\* C2: in every reachable state of the store, under any interleaving of
\* concurrent upsertDailyTariffs calls, at most one row exists for each
\* (date, warehouseName, boxType, deliveryType) key.
C2_OneRowPerKey ==
    \A r1 \in store, r2 \in store : C2_SameKey(r1, r2) => r1 = r2

\* Two calls that overlapped in time on the same key: q began first, p began
\* later, wrote the key and committed, and q then merged into p's row.
C2_Witness ==
    \E p \in Procs, q \in Procs :
        /\ tx[p].state = "committed"
        /\ tx[q].state = "active"
        /\ tx[q].now < tx[p].now
        /\ \E w \in tx[q].written : w.created_at = tx[p].now
        /\ \E r \in store : r.created_at = tx[p].now

C3_RowOfTariff(r, t) ==
    /\ r.date = t.date
    /\ r.warehouse_name = t.warehouseName
    /\ r.box_type = t.boxType
    /\ r.delivery_type = t.deliveryType

\* The step commits the whole batch of call p: afterwards every tariff of the
\* batch has its row, and every row that changed belongs to the batch.
C3_CommitsWholeBatch(p) ==
    /\ tx[p].state = "active"
    /\ tx'[p].state = "committed"
    /\ \A j \in 1..Len(tx[p].batch) :
          \E r \in store' : C3_RowOfTariff(r, tx[p].batch[j])
    /\ \A r \in store' \ store :
          \E j \in 1..Len(tx[p].batch) : C3_RowOfTariff(r, tx[p].batch[j])

\* C3: upsertDailyTariffs is all-or-nothing: the committed table changes only
\* in the step that commits a whole batch; a call that fails or is abandoned
\* leaves the table as it was, and no reader sees part of a batch.
C3_AllOrNothing ==
    [][(store' # store) => \E p \in Procs : C3_CommitsWholeBatch(p)]_vars

\* A call that failed, or was abandoned at shutdown, after the statement for
\* its first row and before the one for its second, with nothing stored.
C3_Witness ==
    \E p \in Procs, q \in Procs :
        /\ tx[p].state = "failed"
        /\ tx[q].state = "abandoned"
        /\ tx[p].i = 1 /\ Len(tx[p].batch) = 2
        /\ tx[q].i = 1 /\ Len(tx[q].batch) = 2
        /\ store = {}

\* The last tariff of batch with the key of batch[j].
C9_LastFor(batch, j) ==
    LET same == {k \in 1..Len(batch) :
                    /\ batch[k].date = batch[j].date
                    /\ batch[k].warehouseName = batch[j].warehouseName
                    /\ batch[k].boxType = batch[j].boxType
                    /\ batch[k].deliveryType = batch[j].deliveryType}
    IN  batch[CHOOSE k \in same : \A m \in same : m <= k]

\* A non-negative coefficient as the two-decimal column holds it.
C9_AtRest(c) == ((c * 100 + Scale \div 2) \div Scale) * (Scale \div 100)

C9_Holds(r, t) ==
    /\ C3_RowOfTariff(r, t)
    /\ r.coefficient = C9_AtRest(t.coefficient)
    /\ JSONParse(r.raw_data) = t.rawData

C9_WithoutUpdatedAt(r) ==
    [id |-> r.id, date |-> r.date, warehouse_name |-> r.warehouse_name,
     box_type |-> r.box_type, delivery_type |-> r.delivery_type,
     coefficient |-> r.coefficient, raw_data |-> r.raw_data,
     created_at |-> r.created_at]

\* C9: after a call of upsertDailyTariffs commits there is exactly one row
\* per key of its batch, holding the coefficient (as the two-decimal column
\* holds it) and rawData that call gave the key last; when the table already
\* held exactly these values (an identical earlier call), the call changes
\* nothing but updated_at.
C9_UpsertReplaces ==
    [][\A p \in Procs :
          (tx[p].state = "active" /\ tx'[p].state = "committed") =>
            LET batch == tx[p].batch
            IN  /\ \A j \in 1..Len(batch) :
                      /\ Cardinality({r \in store' : C3_RowOfTariff(r, batch[j])}) = 1
                      /\ \A r \in store' :
                            C3_RowOfTariff(r, batch[j]) => C9_Holds(r, C9_LastFor(batch, j))
                /\ (\A j \in 1..Len(batch) :
                        \E r \in store : C9_Holds(r, C9_LastFor(batch, j)))
                    => {C9_WithoutUpdatedAt(r) : r \in store'}
                         = {C9_WithoutUpdatedAt(r) : r \in store}]_vars

\* Two calls with the same non-empty input, one after the other: the row the
\* first created carries the second's updated_at.
C9_Witness ==
    \E p \in Procs, q \in Procs :
        /\ tx[p].state = "committed"
        /\ tx[q].state = "committed"
        /\ tx[p].batch = tx[q].batch
        /\ tx[p].batch # <<>>
        /\ tx[p].now < tx[q].now
        /\ \A r \in store : r.created_at = tx[p].now /\ r.updated_at = tx[q].now
        /\ store # {}

\* C11: concurrent upsertDailyTariffs calls with overlapping keys serialize
\* whatever the order of the keys in their batches: no two calls ever wait
\* for each other's row locks, and no call is aborted because of them.
C11_NoLockAbort ==
    \A p \in Procs, q \in Procs :
        /\ ~(WaitsFor(p, q) /\ WaitsFor(q, p))
        /\ tx[p].error # "deadlock detected"


-----------------------------------------------------------------------------
(* Claims about the sheets synchronizer *)

\* C4: syncAllSheets returns (it has no path that throws) exactly one
\* SyncResult per configured target, in target order; a target whose sink
\* operation failed has success = false and an error message; every other
\* target's result is decided by its own operations only.
C4_OneResultPerTarget ==
    syncPc = "returned" =>
        /\ Len(syncResults) = Len(spreadsheetIds)
        /\ \A t \in Targets :
              /\ syncResults[t].spreadsheetId = spreadsheetIds[t]
              /\ syncResults[t].success <=> (sync[t].failedOp = "")
              /\ sync[t].failedOp \in {"clear", "update"} =>
                    /\ ~syncResults[t].success
                    /\ syncResults[t].error = SinkErrorMessage
              /\ syncResults[t].success =>
                    syncResults[t].rowsUpdated = Len(sync[t].tariffs)

\* Three targets, the sink of the second failed: three results, the first
\* and the third report success with rows written.
C4_Witness ==
    /\ syncPc = "returned"
    /\ spreadsheetIds = <<"s1", "s2", "s3">>
    /\ Len(syncResults) = 3
    /\ sync[2].failedOp \in {"clear", "update"}
    /\ ~syncResults[2].success
    /\ syncResults[1].success /\ syncResults[1].rowsUpdated > 0
    /\ syncResults[3].success /\ syncResults[3].rowsUpdated > 0

\* C10: for every target, a sync moves on to its write only by its clear of
\* the whole region, and when a sync that wrote reports success the region
\* holds exactly the header plus the rows of the snapshot that sync read.
C10_RegionIsSnapshot ==
    [][\A t \in DOMAIN sync :
          /\ (sync[t].pc # "update" /\ sync'[t].pc = "update") =>
                (sync[t].pc = "clear" /\ sheet'[spreadsheetIds[t]] = <<>>)
          /\ (sync[t].pc = "update" /\ sync'[t].pc = "settled"
                  /\ sync'[t].result.success) =>
                sheet'[spreadsheetIds[t]] = formatTariffsForSheet(sync[t].tariffs)]_vars

\* C16: syncAllSheets always eventually returns: a started sync cycle does
\* not stay pending forever, whatever a sink does with a clear or a write.
C16_SyncAllReturns == (syncPc = "running") ~> (syncPc = "returned")

-----------------------------------------------------------------------------
(* Claims about startup and the scheduler *)

\* C12: with the default cadences the two triggers never overlap: no
\* syncAllSheets invocation is in progress in a state in which a
\* fetchAndStoreTariffs invocation is in progress.
C12_NonOverlappingTriggers == ~(fetchInFlight > 0 /\ syncInFlight > 0)

\* C13: when the Google Sheets variables are not configured the process does
\* not fail at startup.
C13_StartsWithoutSheets ==
    (getSheetsConfig(env) = "null") => appPc # "crashed"

-----------------------------------------------------------------------------
(* Claims about fetchBoxTariffs *)

\* C14: an attempt of fetchBoxTariffs whose response body does not match the
\* schema ends the call with the validation error: it is the last attempt,
\* no request and no backoff wait follows it (when it is the first attempt,
\* exactly one request was sent and no wait occurred).
C14_ValidationNotRetried ==
    \A k \in 1..Len(causes) :
        causes[k].kind = "schema" =>
            /\ k = Len(causes)
            /\ calls = k
            /\ Len(waits) = k - 1
            /\ rpc = "thrown"
            /\ thrown = errs[k]

\* C15: every fetch attempt terminates: an attempt that has sent its request
\* eventually ends, with a result or an error, also when the headers or the
\* body never arrive in full.
C15_AttemptTerminates == (fpc # "none") ~> (fpc = "none")

\* C17: every failure of a fetch attempt is classified where it happens so
\* that shouldRetry decides it as required: a timeout raises name
\* TimeoutError with code ETIMEDOUT and is retryable; a non-2xx response
\* raises an error carrying its status, 401/403 not retryable, 429 and 5xx
\* retryable; a failed connection is retryable; a body that is not valid is
\* not retryable.
C17_ClassifiedAtFailure ==
    \A k \in 1..Len(causes) :
        LET c == causes[k]
            e == errs[k]
        IN  /\ c.kind = "timeout" =>
                  e.name = "TimeoutError" /\ e.code = "ETIMEDOUT" /\ shouldRetry(e)
            /\ c.kind = "http" =>
                  /\ e.status = c.status
                  /\ c.status \in {401, 403} => ~shouldRetry(e)
                  /\ (c.status = 429 \/ c.status >= 500) => shouldRetry(e)
            /\ c.kind = "network" => shouldRetry(e)
            /\ c.kind \in {"schema", "json"} => ~shouldRetry(e)

-----------------------------------------------------------------------------
(* Claims about shouldRetry and retry *)

\* C18: shouldRetry returns false for any error with response.status 401 or
\* 403, whatever else the error carries; otherwise true for code
\* ECONNREFUSED, ETIMEDOUT or ENOTFOUND, for status >= 500, for status 429
\* and for name TimeoutError; and false for every other error.
C18_ShouldRetryTable ==
    srPc = "done" =>
        /\ srError.status \in {401, 403} => srResult = FALSE
        /\ srError.status \notin {401, 403} =>
              srResult = (\/ srError.code = "ECONNREFUSED"
                          \/ srError.code = "ETIMEDOUT"
                          \/ srError.code = "ENOTFOUND"
                          \/ srError.status >= 500
                          \/ srError.status = 429
                          \/ srError.name = "TimeoutError")

\* An authentication error that also carries a network code was decided.
C18_Witness ==
    /\ srPc = "done"
    /\ srError.status = 403
    /\ srError.code = "ECONNREFUSED"
    /\ srError.name = "TimeoutError"
    /\ srResult = FALSE

\* C19: retry suspends only between a failed attempt and the next attempt:
\* a wait starts only when an attempt has just failed, ends only in the next
\* attempt, and none starts before the first attempt, after a success or
\* after the last failed attempt; a successful attempt returns at once and
\* the operation is not invoked again.
C19_SuspendsOnlyBetweenAttempts ==
    [][/\ (waits' # waits \/ (rpc' = "sleeping" /\ rpc # "sleeping")) =>
             /\ rpc = "attempt"
             /\ rpc' = "sleeping"
             /\ Len(errs') = Len(errs) + 1
             /\ waits' = Append(waits, waits'[Len(waits')])
       /\ (rpc = "sleeping" /\ rpc' # "sleeping") =>
             (rpc' = "attempt" /\ calls' = calls)
       /\ (rpc = "attempt" /\ rpc' = "returned") =>
             (calls' = calls + 1 /\ waits' = waits)
       /\ (rpc = "returned") =>
             (rpc' = "returned" /\ calls' = calls /\ waits' = waits)]_vars

\* A call that succeeded on a later attempt: one wait per failed attempt and
\* one invocation more than failures.
C19_Witness ==
    /\ rpc = "returned"
    /\ Len(errs) >= 2
    /\ Len(waits) = Len(errs)
    /\ calls = Len(errs) + 1

\* The error of the last attempt with the attempt count and the label
\* attached to it.
C20_Annotated(error, attempts, label) ==
    [error |-> error, attempts |-> attempts, operation |-> label]

C27_Counts(f) == f # Undefined /\ f # <<>> /\ f # <<"0">>

\* The delivery type of a raw entry by the first-match rule.
C27_FirstMatch(e) ==
    CASE C27_Counts(e.boxDeliveryBase) -> "Standard"
      [] ~C27_Counts(e.boxDeliveryBase) /\ C27_Counts(e.boxDeliveryLiter) -> "Liter-based"
      [] ~C27_Counts(e.boxDeliveryBase) /\ ~C27_Counts(e.boxDeliveryLiter)
            /\ C27_Counts(e.boxStorageBase) -> "Storage"
      [] ~C27_Counts(e.boxDeliveryBase) /\ ~C27_Counts(e.boxDeliveryLiter)
            /\ ~C27_Counts(e.boxStorageBase)
            /\ e.boxDeliveryAndStorageExpr \notin {Undefined, <<>>} -> "Delivery"
      [] OTHER -> "Unknown"

\* C27: normalize classifies deliveryType by first match: boxDeliveryBase
\* non-empty and not "0" gives Standard, else boxDeliveryLiter so gives
\* Liter-based, else boxStorageBase so gives Storage, else a present
\* (non-empty) boxDeliveryAndStorageExpr gives Delivery, else Unknown; the
\* value is one of these five and is a function of these four fields alone,
\* whichever field supplied the coefficient.
C27_DeliveryTypeFirstMatch ==
    npc = "done" =>
        \A i \in 1..Len(processedTariffs) :
            /\ processedTariffs[i].deliveryType = C27_FirstMatch(processedTariffs[i].rawData)
            /\ processedTariffs[i].deliveryType \in
                   {"Standard", "Liter-based", "Storage", "Delivery", "Unknown"}

\* An entry whose coefficient came from the expression is Standard by its
\* boxDeliveryBase, beside one that is Delivery and has no such field.
C27_Witness ==
    /\ npc = "done"
    /\ Len(processedTariffs) = 2
    /\ processedTariffs[1].deliveryType = "Standard"
    /\ Truthy(processedTariffs[1].rawData.boxDeliveryAndStorageExpr)
    /\ processedTariffs[2].deliveryType = "Delivery"

\* The entry derives with a positive coefficient.
C28_Derives(e) == calculateCoefficient(e) > 0

\* C28: the output of normalize contains, in input order, exactly the raw
\* entries that derive with a positive coefficient, whatever happens to the
\* other entries of the list.
C28_ExactlyPositiveEntries ==
    npc = "done" =>
        [i \in 1..Len(processedTariffs) |-> processedTariffs[i].rawData]
            = SelectSeq(boxTariffs, C28_Derives)

-----------------------------------------------------------------------------
(* Claims about the table written to a sheet *)

\* C30: the table written to a target is rectangular: its first row is
\* exactly Warehouse, Box Type, Delivery Type, Coefficient, Date, followed by
\* exactly one 5-column row per tariff of the snapshot in the order the store
\* returned them (ascending coefficient); the update writes these rows from
\* the first cell on, and the rowsUpdated of a success is the number of
\* tariffs, the header not counted.
C30_RectangularTable ==
    /\ [](\A t \in Targets :
            sync[t].sheetData # <<>> =>
                /\ sync[t].sheetData[1] =
                       <<"Warehouse", "Box Type", "Delivery Type", "Coefficient", "Date">>
                /\ Len(sync[t].sheetData) = Len(sync[t].tariffs) + 1
                /\ \A k \in 1..Len(sync[t].sheetData) : Len(sync[t].sheetData[k]) = 5
                /\ \A k \in 1..Len(sync[t].tariffs) :
                      /\ sync[t].sheetData[k + 1][1] = sync[t].tariffs[k].warehouseName
                      /\ sync[t].sheetData[k + 1][2] = sync[t].tariffs[k].boxType
                      /\ sync[t].sheetData[k + 1][3] = sync[t].tariffs[k].deliveryType
                      /\ sync[t].sheetData[k + 1][4] =
                             formatCoefficient(sync[t].tariffs[k].coefficient)
                      /\ sync[t].sheetData[k + 1][5] = formatDate(sync[t].tariffs[k].date)
                /\ \A a \in 1..Len(sync[t].tariffs), b \in 1..Len(sync[t].tariffs) :
                      a < b => sync[t].tariffs[a].coefficient <= sync[t].tariffs[b].coefficient
                /\ (sync[t].pc = "settled" /\ sync[t].result.success) =>
                      sync[t].result.rowsUpdated = Len(sync[t].tariffs))
    /\ [][\A t \in Targets :
            (sync[t].pc = "update" /\ sync'[t].pc = "settled" /\ sync'[t].result.success) =>
                SubSeq(sheet'[spreadsheetIds[t]], 1, Len(sync[t].sheetData))
                    = sync[t].sheetData]_vars

\* A target received the header and two tariff rows and reports two rows.
C30_Witness ==
    \E t \in Targets :
        /\ sync[t].pc = "settled"
        /\ sync[t].result.success
        /\ sync[t].result.rowsUpdated = 2
        /\ Len(sync[t].sheetData) = 3
        /\ sheet[spreadsheetIds[t]] = sync[t].sheetData

-----------------------------------------------------------------------------
(* Claims about the queries of the repository *)

\* The tariffs of the rows of the latest date among rows, as a set.
C21_LatestOf(rows) ==
    {mapRowToTariff(r) : r \in {x \in rows : \A o \in rows : o.date <= x.date}}

C21_Elements(list) == {list[k] : k \in 1..Len(list)}

\* C21: getLatestDailyTariffs returns exactly the rows whose date is the
\* maximum date in the store, all of them and no others, and the empty list
\* when the store is empty. Step by step: the date it determines is the
\* maximum stored date; without one the store is empty and the result is
\* empty; the result holds every row of that date once and nothing else,
\* which is the whole latest day whenever no later date has been stored in
\* between.
C21_LatestRowsExactly ==
    [][/\ (qpc = "maxDate" /\ qpc' = "rows") =>
             /\ \E r \in store : r.date = qDate'
             /\ \A r \in store : r.date <= qDate'
       /\ (qpc = "maxDate" /\ qpc' = "returned") =>
             (store = {} /\ qResult' = <<>>)
       /\ (qpc = "maxDate" /\ qpc' # qpc /\ store = {}) =>
             qpc' \in {"returned", "thrown"}
       /\ (qKind = "latest" /\ qpc = "rows" /\ qpc' = "returned") =>
             /\ C21_Elements(qResult') =
                    {mapRowToTariff(r) : r \in {x \in store : x.date = qDate}}
             /\ Len(qResult') = Cardinality({x \in store : x.date = qDate})
             /\ (\A r \in store : r.date <= qDate) =>
                    C21_Elements(qResult') = C21_LatestOf(store)]_vars

\* A store holding two days returned its two rows of the later day.
C21_Witness ==
    /\ qKind = "latest"
    /\ qpc = "returned"
    /\ Len(qResult) = 2
    /\ \E r \in store : r.date < qDate
    /\ C21_Elements(qResult) = C21_LatestOf(store)

\* C22: the lists returned by getLatestDailyTariffs and getTariffsByDate are
\* in ascending coefficient order whatever the insertion order.
C22_AscendingCoefficient ==
    qpc = "returned" =>
        \A a \in 1..Len(qResult), b \in 1..Len(qResult) :
            a < b => qResult[a].coefficient <= qResult[b].coefficient

\* Rows stored as 3.00, 1.10, 2.50 came back as 1.10, 2.50, 3.00.
C22_Witness ==
    /\ qpc = "returned"
    /\ {r.id : r \in {x \in store : x.date = 1}} = {1, 2, 3}
    /\ [k \in 1..Len(qResult) |-> qResult[k].coefficient]
           = <<Milli(1100), Milli(2500), Milli(3000)>>
-----------------------------------------------------------------------------
(* Claims about the fetch cycle *)

C24_FailedCycleAborts ==
    /\ (cpc = "failed") =>
          /\ store = storeBefore
          /\ cycleError # ""
          /\ cycleFailedAt \in {"fetch", "upsert"}
    /\ (tx["call1"].state = "failed") =>
          (cpc = "failed" /\ cycleFailedAt = "upsert" /\ cycleError = tx["call1"].error)
    /\ (cycleFailedAt = "fetch") =>
          /\ cycleError \in FetchErrorMessages
          /\ npc = "idle"
          /\ boxTariffs = <<>>
          /\ processedTariffs = <<>>
          /\ tx["call1"] = NoCall
    /\ (cpc \in {"done", "failed"} /\ cyclesStarted < MaxCycles) => ENABLED CycleStart
    /\ cycleFailures <= cyclesStarted

\* After a cycle that failed, a later cycle fetched, normalized and stored.
C24_Witness ==
    /\ cycleFailures >= 1
    /\ cpc = "done"
    /\ tx["call1"].state = "committed"
    /\ store # storeBefore
    /\ Len(processedTariffs) >= 1
-----------------------------------------------------------------------------
(* Claims about the scheduler *)

\* C25: a failure of a scheduled fetch-and-store or sync-all invocation never
\* terminates the process or stops the scheduler: after it the process is
\* still running with the scheduler running and both tasks scheduled, and
\* every later minute either expression matches still starts its invocation.
C25_FailureKeepsScheduler ==
    /\ [](failureSeen # "none" =>
            /\ appPc = "running"
            /\ isRunning
            /\ tariffFetchTask
            /\ sheetsSyncTask = SheetsSyncScheduled(env))
    /\ [][(failureSeen # "none" /\ <<hour, minute>>' # <<hour, minute>>) =>
            /\ CronMatches(CronFields(FetchExpression(env)), hour', minute')
                   => fetchInFlight' = fetchInFlight + 1
            /\ CronMatches(CronFields(SyncExpression(env)), hour', minute')
                   => syncInFlight' = syncInFlight + 1]_vars

\* After a failed invocation both tasks were fired again and are in progress.
C25_Witness ==
    /\ failureSeen = "firedAgain"
    /\ appPc = "running"
    /\ fetchInFlight > 0
    /\ syncInFlight > 0

\* C26: an invalid TARIFF_FETCH_CRON or SHEETS_SYNC_CRON expression is always
\* rejected at startup: the service never runs with an expression that fails
\* cron.validate in its configuration, and no task is scheduled for one.
C26_InvalidCronRejected ==
    /\ (appPc = "running") =>
          /\ cronValidate(env.TARIFF_FETCH_CRON)
          /\ cronValidate(env.SHEETS_SYNC_CRON)
    /\ ~cronValidate(env.TARIFF_FETCH_CRON) => ~tariffFetchTask
    /\ ~cronValidate(env.SHEETS_SYNC_CRON) => ~sheetsSyncTask
-----------------------------------------------------------------------------
(* Claims about the path from a raw entry to a sheet row *)

\* A raw entry with only warehouseName and a positive boxDeliveryBase.
C29_OnlyDeliveryBase(e) ==
    /\ e.boxTypeName = ""
    /\ e.boxDeliveryAndStorageExpr = Undefined
    /\ e.boxDeliveryLiter = Undefined
    /\ e.boxStorageBase = Undefined
    /\ e.boxStorageLiter = Undefined
    /\ e.boxDeliveryBase # Undefined
    /\ C7_FieldYield(e.boxDeliveryBase) > 0

\* The coefficient of such an entry as the numeric(10, 2) column holds it.
C29_Coefficient(e) == ToNumeric2(C7_FieldYield(e.boxDeliveryBase))

C29_Stored(e, day) ==
    \E r \in store :
        /\ r.date = day
        /\ r.warehouse_name = e.warehouseName
        /\ r.box_type = "Box"
        /\ r.delivery_type = "Standard"
        /\ r.coefficient = C29_Coefficient(e)

C29_SheetRow(e, day) ==
    <<e.warehouseName, "Box", "Standard", formatCoefficient(C29_Coefficient(e)),
      formatDate(day)>>

\* C29: for a raw entry with only warehouseName and a positive
\* boxDeliveryBase, a fetch cycle stores the row (today, warehouseName, Box,
\* Standard, that coefficient), today being the latest date of the store;
\* a sync that then reads the store puts the row warehouseName, Box,
\* Standard, the coefficient with two decimals, the date as YYYY-MM-DD in its
\* table, and its update writes that row to the sheet.
C29_EntryToSheetRow ==
    /\ []((cpc = "done" /\ tx["call1"].state = "committed") =>
            /\ \A r \in store : r.date <= today
            /\ \A i \in 1..Len(boxTariffs) :
                  C29_OnlyDeliveryBase(boxTariffs[i]) => C29_Stored(boxTariffs[i], today))
    /\ [][\A t \in Targets :
            /\ (sync[t].pc = "rows" /\ sync'[t].pc # "rows") =>
                  \A r \in store :
                      (r.date = sync[t].latestDate
                          /\ C29_OnlyDeliveryBase(JSONParse(r.raw_data))) =>
                      \E k \in 1..Len(sync'[t].sheetData) :
                          sync'[t].sheetData[k] = C29_SheetRow(JSONParse(r.raw_data), r.date)
            /\ (sync[t].pc = "update" /\ sync'[t].pc # "update") =>
                  \A k \in 1..Len(sync[t].sheetData) :
                      sheet'[spreadsheetIds[t]][k] = sync[t].sheetData[k]]_vars

\* The entry Koledino with boxDeliveryBase "1.25", stored on day 1 and synced.
C29_Witness ==
    /\ boxTariffs = <<RawEntry("Koledino", Undefined, <<"1", ".", "2", "5">>)>>
    /\ cpc = "done"
    /\ today = 1
    /\ \E r \in store :
          /\ r.date = 1 /\ r.warehouse_name = "Koledino" /\ r.box_type = "Box"
          /\ r.delivery_type = "Standard" /\ r.coefficient = Milli(1250)
    /\ syncPc = "returned"
    /\ syncResults = <<SuccessResult("s1", 1)>>
    /\ sheet["s1"] = <<Header, <<"Koledino", "Box", "Standard", "1.25", "2025-01-01">>>>
-----------------------------------------------------------------------------
(* Claims about a sync that finds nothing to write *)

\* The syncSheet call of target t returned without a failure and had read
\* an empty list.
C31_ReadNothing(t) ==
    sync[t].pc = "settled" /\ sync[t].failedOp = "" /\ sync[t].tariffs = <<>>

\* C31: a syncSheet call that reads an empty latest snapshot returns
\* success = true, rowsUpdated = 0 and no error; it issues neither the clear
\* nor the write (only a call holding a non-empty list reaches them, and the
\* region of a spreadsheet changes only by the clear or the write of such a
\* call), so a spreadsheet all of whose calls read nothing holds what it
\* held before the cycle.
C31_EmptySnapshotWritesNothing ==
    /\ [](\A t \in DOMAIN sync :
            /\ C31_ReadNothing(t) =>
                  sync[t].result = [spreadsheetId |-> spreadsheetIds[t], success |-> TRUE,
                                    rowsUpdated |-> 0, error |-> ""]
            /\ sync[t].pc \in {"clear", "update"} => Len(sync[t].tariffs) > 0
            /\ (syncPc = "returned"
                    /\ \A u \in DOMAIN sync :
                          spreadsheetIds[u] = spreadsheetIds[t] => C31_ReadNothing(u)) =>
                  sheet[spreadsheetIds[t]] = EarlierTable)
    /\ [][\A t \in DOMAIN sync :
            /\ (sync[t].pc = "maxDate" /\ store = {} /\ sync'[t].pc # "maxDate"
                    /\ sync'[t].failedOp = "") =>
                  (C31_ReadNothing(t)' /\ sheet' = sheet)
            /\ sheet'[spreadsheetIds[t]] # sheet[spreadsheetIds[t]] =>
                  \E u \in DOMAIN sync :
                      /\ spreadsheetIds[u] = spreadsheetIds[t]
                      /\ sync[u].pc \in {"clear", "update"}
                      /\ sync'[u].pc # sync[u].pc]_vars

\* Three targets synced from an empty store: three successes with no rows,
\* every spreadsheet as the earlier sync left it.
C31_Witness ==
    /\ syncPc = "returned"
    /\ store = {}
    /\ spreadsheetIds = <<"s1", "s2", "s3">>
    /\ \A t \in 1..3 : syncResults[t] = SuccessResult(spreadsheetIds[t], 0)
    /\ \A id \in SheetIds : sheet[id] = EarlierTable
-----------------------------------------------------------------------------
(* Claims about repeated normalization *)

-----------------------------------------------------------------------------
(* Claims about what upsertDailyTariffs returns and touches *)

\* C33: upsertDailyTariffs returns the number of tariffs it was given,
\* whether its statements inserted or updated and also when the batch names
\* a key more than once; given an empty list it returns 0 and leaves the
\* table (rows, id sequence, open transactions of other calls) as it was.
C33_ReturnsSubmittedCount ==
    /\ [](\A p \in Procs :
            /\ tx[p].state = "committed" =>
                  (Len(tx[p].batch) > 0 /\ tx[p].result = Len(tx[p].batch))
            /\ tx[p].state = "returned" =>
                  (tx[p].batch = <<>> /\ tx[p].result = 0))
    /\ [][\A p \in Procs :
            (tx[p].state = "idle" /\ tx'[p].state = "returned") =>
                /\ store' = store
                /\ nextId' = nextId
                /\ \A q \in Procs \ {p} : tx'[q] = tx[q]]_vars

\* A batch of two tariffs with one key has committed: 2 is returned and the
\* table holds one row; the other call was given an empty list.
C33_Witness ==
    /\ tx["call1"].state = "committed"
    /\ Len(tx["call1"].batch) = 2
    /\ tx["call1"].batch[1].warehouseName = tx["call1"].batch[2].warehouseName
    /\ tx["call1"].batch[1].date = tx["call1"].batch[2].date
    /\ tx["call1"].result = 2
    /\ Cardinality(store) = 1
    /\ tx["call2"].state = "returned"
    /\ tx["call2"].result = 0
-----------------------------------------------------------------------------
(* Claims about the Scheduler object *)

\* C34: after any sequence of start and stop calls, also when a start threw
\* on an invalid cron expression, isRunning is true exactly when a fetch
\* task is scheduled, at most one fetch task and at most one sync task are
\* active, and after stop() no task of this scheduler is active.
C34_SchedulerTasksConsistent ==
    /\ isRunning <=> activeFetchTasks > 0
    /\ activeFetchTasks <= 1
    /\ activeSyncTasks <= 1
    /\ lastCall \in {"stop: stopped", "stop: not running"} =>
          (activeFetchTasks = 0 /\ activeSyncTasks = 0)
-----------------------------------------------------------------------------
(* Claims about the snapshot of a sync cycle *)

\* C35: within one syncAllSheets cycle every target is written from the
\* same snapshot: no two targets of the cycle are handed different tariff
\* tables, also when an upsert commits while the cycle runs.
C35_OneSnapshotPerCycle ==
    \A t \in DOMAIN sync, u \in DOMAIN sync :
        (sync[t].sheetData # <<>> /\ sync[u].sheetData # <<>>) =>
            sync[t].sheetData = sync[u].sheetData
-----------------------------------------------------------------------------
(* Claims about the dates of a fetch cycle *)

\* C36: the date parameter sent to the Source API and the date of the rows
\* stored from the same cycle are the same calendar day, in every time zone
\* of the machine and however long the retries of the fetch last.
C36_RequestDateIsRowDate == dpc = "stored" => rowDate = dateParam
-----------------------------------------------------------------------------
(* Claims about the rows an upsert touches *)

\* Some tariff of the batch has the key of row r.
C37_Hits(batch, r) ==
    \E j \in 1..Len(batch) :
        /\ batch[j].date = r.date
        /\ batch[j].warehouseName = r.warehouse_name
        /\ batch[j].boxType = r.box_type
        /\ batch[j].deliveryType = r.delivery_type

\* C37: when a call of upsertDailyTariffs that commits hit the key of an
\* existing row, that row keeps its id, its created_at and its four key
\* columns and changes in coefficient, raw_data and updated_at only; every
\* row whose key the batch does not name is left exactly as it was.
C37_UpsertFrame ==
    [][\A p \in Procs :
          (tx[p].state = "active" /\ tx'[p].state = "committed") =>
              \A r \in store :
                  \E r2 \in store' :
                      /\ r2.id = r.id
                      /\ r2.created_at = r.created_at
                      /\ r2.date = r.date
                      /\ r2.warehouse_name = r.warehouse_name
                      /\ r2.box_type = r.box_type
                      /\ r2.delivery_type = r.delivery_type
                      /\ C37_Hits(tx[p].batch, r) => r2.updated_at = tx[p].now
                      /\ ~C37_Hits(tx[p].batch, r) => r2 = r]_vars

\* The second call hit the key of row 1, stored by the first call, and left
\* the row of another key alone: row 1 has its first id and created_at, the
\* new coefficient and raw data, and a later updated_at.
C37_Witness ==
    /\ tx["call1"].state = "committed"
    /\ tx["call2"].state = "committed"
    /\ tx["call1"].now < tx["call2"].now
    /\ \E r \in store :
          /\ r.id = 1
          /\ r.warehouse_name = "Koledino"
          /\ r.created_at = tx["call1"].now
          /\ r.updated_at = tx["call2"].now
          /\ r.coefficient = Milli(2510)
          /\ r.raw_data = JSONStringify("rawB")
    /\ \E r \in store :
          /\ r.warehouse_name = "Podolsk"
          /\ r.created_at = tx["call1"].now
          /\ r.updated_at = tx["call1"].now

\* The positions of batch that name the key of batch[j].
C38_SameKeyAs(batch, j) ==
    {k \in 1..Len(batch) :
        /\ batch[k].date = batch[j].date
        /\ batch[k].warehouseName = batch[j].warehouseName
        /\ batch[k].boxType = batch[j].boxType
        /\ batch[k].deliveryType = batch[j].deliveryType}

\* C38: a batch that names a key two or more times does not make the call
\* fail: the statement for the repeated key runs against the call's own
\* earlier version of the row (it waits for no lock of its own), and when
\* the call commits the store holds one row for that key, with the
\* coefficient (as the two-decimal column holds it) and the rawData of the
\* last tariff of the batch with that key.
C38_RepeatedKeyLastWins ==
    /\ [](\A p \in Procs :
            (/\ tx[p].state = "active"
             /\ tx[p].i < Len(tx[p].batch)
             /\ \E k \in C38_SameKeyAs(tx[p].batch, tx[p].i + 1) : k <= tx[p].i
             /\ alive) =>
                ENABLED UpsertRow(p))
    /\ [][\A p \in Procs :
            (tx[p].state = "active" /\ tx'[p].state = "committed") =>
                \A j \in 1..Len(tx[p].batch) :
                    Cardinality(C38_SameKeyAs(tx[p].batch, j)) >= 2 =>
                        LET last == tx[p].batch[CHOOSE k \in C38_SameKeyAs(tx[p].batch, j) :
                                         \A m \in C38_SameKeyAs(tx[p].batch, j) : m <= k]
                            rows == {r \in store' : C37_Hits(<<tx[p].batch[j]>>, r)}
                        IN  /\ Cardinality(rows) = 1
                            /\ \A r \in rows :
                                  /\ r.coefficient = ToNumeric2(last.coefficient)
                                  /\ r.raw_data = JSONStringify(last.rawData)]_vars

\* The batch <<1.10, 2.505>> for one key on an empty table has committed: one
\* row, holding 2.51 and the raw data of the second tariff.
C38_Witness ==
    /\ tx["call1"].state = "committed"
    /\ tx["call1"].batch = <<Tariff(1, "Koledino", Milli(1100), "rawA"),
                             Tariff(1, "Koledino", Milli(2505), "rawB")>>
    /\ tx["call2"].state = "idle"
    /\ Cardinality(store) = 1
    /\ \A r \in store : r.coefficient = Milli(2510) /\ r.raw_data = JSONStringify("rawB")
-----------------------------------------------------------------------------
(* Claims about a write that fails after its clear *)

\* C39: when the clear of a target succeeded and its write fails, syncSheet
\* returns success = false, rowsUpdated = 0 and the message of the error for
\* that target; the clear emptied the region, the failed write puts nothing
\* back and the call issues no further request: the rows of the earlier
\* sync are not restored, and a spreadsheet no other call of the cycle
\* writes to is empty when the call has returned.
C39_FailedWriteLeavesRegionEmpty ==
    /\ [](\A t \in DOMAIN sync :
            (sync[t].pc = "settled" /\ sync[t].failedOp = "update") =>
                /\ sync[t].result = [spreadsheetId |-> spreadsheetIds[t], success |-> FALSE,
                                     rowsUpdated |-> 0, error |-> SinkErrorMessage]
                /\ (\A u \in DOMAIN sync :
                        u # t => spreadsheetIds[u] # spreadsheetIds[t]) =>
                      sheet[spreadsheetIds[t]] = <<>>)
    /\ [][\A t \in DOMAIN sync :
            /\ (sync[t].pc = "clear" /\ sync'[t].pc = "update") =>
                  sheet'[spreadsheetIds[t]] = <<>>
            /\ (sync[t].pc = "update" /\ sync'[t].pc = "settled"
                    /\ sync'[t].failedOp = "update") =>
                  sheet' = sheet]_vars

\* Three spreadsheets that held the earlier table; the write of the second
\* failed after its clear: its result is the failure and its region is
\* empty, the other two hold the new table.
C39_Witness ==
    /\ syncPc = "returned"
    /\ spreadsheetIds = <<"s1", "s2", "s3">>
    /\ sync[2].failedOp = "update"
    /\ syncResults[2] = [spreadsheetId |-> "s2", success |-> FALSE, rowsUpdated |-> 0,
                         error |-> SinkErrorMessage]
    /\ sheet["s2"] = <<>>
    /\ syncResults[1].success /\ sheet["s1"] # <<>> /\ sheet["s1"] # EarlierTable
    /\ syncResults[3].success /\ sheet["s3"] # <<>> /\ sheet["s3"] # EarlierTable
-----------------------------------------------------------------------------
(* Claims about the initial fetch at startup *)

\* C40: at startup scheduler.start() is called only after the initial
\* fetchAndStoreTariffs has settled, every attempt and every retry wait of
\* its fetch being over; the call's failure does not end the process, main
\* goes on to start the scheduler, and with valid cron expressions the
\* scheduler is eventually running after a failed initial fetch.
C40_SchedulerAfterInitialFetch ==
    /\ []((isRunning \/ tariffFetchTask \/ sheetsSyncTask
              \/ appPc \in {"startScheduler", "running"}) =>
            (rpc \in {"returned", "thrown"} /\ fpc = "none"))
    /\ [][(appPc = "initialFetch" /\ appPc' # appPc) =>
            (appPc' = "startScheduler" /\ rpc \in {"returned", "thrown"})]_vars
    /\ ((appPc = "initialFetch" /\ rpc = "thrown"
            /\ cronValidate(FetchExpression(env)) /\ cronValidate(SyncExpression(env)))
          ~> isRunning)

\* The initial fetch failed after its three attempts and two waits, and the
\* scheduler is running with both tasks.
C40_Witness ==
    /\ appPc = "running"
    /\ isRunning /\ tariffFetchTask /\ sheetsSyncTask
    /\ rpc = "thrown"
    /\ calls = WBRetryConfig.maxAttempts
    /\ Len(waits) = WBRetryConfig.maxAttempts - 1

====
